---------------------------- MODULE Spec2Model ----------------------------
(***************************************************************************)
(* GoPix: the image converter (internal/converter/convert.go), its error   *)
(* kinds (internal/errors) and the worker pool that drives it.             *)
(*                                                                         *)
(* Strings are sequences of one-character strings, so that the string      *)
(* functions of the code (filepath.Ext, strings.ToLower, TrimSuffix,       *)
(* strconv.FormatUint, concatenation) are computed as the code computes    *)
(* them.                                                                   *)
(***************************************************************************)
EXTENDS Integers, Sequences, FiniteSets, Bags, TLC

VARIABLES
    fs,        \* the file system: path -> [st, size, mtime]
    cache,     \* ImageConverter.cache: cache key -> cacheEntry
    now,       \* the wall clock read by time.Now()
    options,   \* ImageConverter.options
    lastCall,  \* the ConvertWithOutputPath call in progress or just ended (or NoCall)
    firstRun,  \* the latest undisturbed run that ran the codec and kept the source
    driver,    \* worker pool: where the driver (Start, AddJob..., Stop) stands
    todo,      \* worker pool: jobs the driver has still to submit
    adding,    \* worker pool: the job of the AddJob call in progress (or NoJob)
    jobs,      \* worker pool: the bounded job queue
    jobsClosed,\* worker pool: Stop has signalled that no further job comes
    wk,        \* worker pool: worker -> [pc, job, out]
    results,   \* worker pool: the result stream
    resClosed, \* worker pool: the result stream is closed
    consumed,  \* worker pool: the results the consumer has received (a bag)
    sentLate,  \* worker pool: a result was published on the closed stream
    stats,     \* statistics: the ConversionStatistics
    statLog,   \* statistics: the results AddResult was called with, in order
    statPhase, \* statistics: "adding", or "calculated" after Calculate
    inputDirs, \* validator: input directory -> what the file system holds there
    valCall,   \* validator: the call that has just returned
    bak,       \* backup: the createBackup call in progress
    bufPool,   \* backup: what the sync.Pool of ImageConverter.bufPool holds
    stateFile, \* session store: the state file and its temporary file on disk
    session,   \* session store: the run of the driver
    rateLimit, \* rate limiter: operations per second, 0 for no limit
    tokens,    \* rate limiter: tokens in the bucket, below zero when reserved
    lim,       \* rate limiter: worker -> where it stands
    delay,     \* rate limiter: the intervals each worker has yet to sleep
    batch,     \* batch processor: the CollectFiles or GetOutputPath calls made
    resize,    \* convertImage: the image at hand, the scale and the size it gets
    calls      \* concurrent Convert calls: job -> where the call stands

convVars == <<fs, cache, now, options, lastCall, firstRun>>
poolVars == <<driver, todo, adding, jobs, jobsClosed, wk, results, resClosed,
              consumed, sentLate>>
statVars == <<stats, statLog, statPhase>>
valVars  == <<inputDirs, valCall>>
bakVars  == <<bak, bufPool>>
sessVars == <<stateFile, session>>
limVars  == <<rateLimit, tokens, lim, delay>>
batchVars == <<batch>>
resizeVars == <<resize>>
callVars == <<calls>>
vars == <<fs, cache, now, options, lastCall, firstRun, driver, todo, adding,
          jobs, jobsClosed, wk, results, resClosed, consumed, sentLate,
          stats, statLog, statPhase, inputDirs, valCall, bak, bufPool,
          stateFile, session, rateLimit, tokens, lim, delay, batch, resize,
          calls>>

\* the variables an action of one component leaves alone
notConvVars == <<poolVars, statVars, valVars, bak, sessVars, limVars,
                 batchVars, resizeVars, callVars>>
notPoolVars == <<convVars, statVars, valVars, bakVars, sessVars, limVars,
                 batchVars, resizeVars, callVars>>
notStatVars == <<convVars, poolVars, valVars, bakVars, sessVars, limVars,
                 batchVars, resizeVars, callVars>>
notValVars  == <<convVars, poolVars, statVars, bakVars, sessVars, limVars,
                 batchVars, resizeVars, callVars>>
notBakVars  == <<cache, now, lastCall, firstRun, poolVars, statVars, valVars,
                 sessVars, limVars, batchVars, resizeVars, callVars>>
notSessVars == <<convVars, poolVars, statVars, valVars, bakVars, limVars,
                 batchVars, resizeVars, callVars>>
notLimVars  == <<convVars, poolVars, statVars, valVars, bakVars, sessVars,
                 batchVars, resizeVars, callVars>>
notBatchVars == <<convVars, poolVars, statVars, valVars, bakVars, sessVars,
                  limVars, resizeVars, callVars>>
notResizeVars == <<convVars, poolVars, statVars, valVars, bakVars, sessVars,
                   limVars, batchVars, callVars>>
notCallVars == <<now, options, lastCall, firstRun, poolVars, statVars, valVars,
                 bak, sessVars, limVars, batchVars, resizeVars>>

-----------------------------------------------------------------------------
(* Bounds of the model.                                                    *)

\* The clock runs from 0 to MaxTime.
MaxTime == 1
\* The worker pool: workers, capacity of the job queue and of the result
\* stream, and jobs the driver has to submit.
NumWorkers == 2
QueueCap == 1
ResultCap == 1
NumJobs == 3

-----------------------------------------------------------------------------
(* Strings.                                                                *)

UpperChars == <<"A","B","C","D","E","F","G","H","I","J","K","L","M",
                "N","O","P","Q","R","S","T","U","V","W","X","Y","Z">>
LowerChars == <<"a","b","c","d","e","f","g","h","i","j","k","l","m",
                "n","o","p","q","r","s","t","u","v","w","x","y","z">>

\* strings.ToLower, one character
LowerOfUpper == [c \in {UpperChars[i] : i \in 1..26} |->
                    LowerChars[CHOOSE i \in 1..26 : UpperChars[i] = c]]
ToLowerChar(c) == IF c \in DOMAIN LowerOfUpper THEN LowerOfUpper[c] ELSE c

\* strings.ToLower
ToLower(s) == [i \in 1..Len(s) |-> ToLowerChar(s[i])]

\* os.IsPathSeparator
IsPathSeparator(c) == c = "/"

\* filepath.Ext: the suffix beginning at the final dot in the final element
\* of path; empty if there is no dot.
RECURSIVE ExtFrom(_, _)
ExtFrom(path, i) ==
    IF i < 1 \/ IsPathSeparator(path[i]) THEN <<>>
    ELSE IF path[i] = "." THEN SubSeq(path, i, Len(path))
    ELSE ExtFrom(path, i - 1)

Ext(path) == ExtFrom(path, Len(path))

\* strings.HasSuffix
HasSuffix(s, suffix) ==
    /\ Len(s) >= Len(suffix)
    /\ SubSeq(s, Len(s) - Len(suffix) + 1, Len(s)) = suffix

\* strings.TrimSuffix
TrimSuffix(s, suffix) ==
    IF HasSuffix(s, suffix) THEN SubSeq(s, 1, Len(s) - Len(suffix)) ELSE s

Digits == <<"0","1","2","3","4","5","6","7","8","9">>

\* strconv.FormatUint(n, 10)
RECURSIVE FormatUint(_)
FormatUint(n) ==
    IF n < 10 THEN <<Digits[n + 1]>>
    ELSE FormatUint(n \div 10) \o <<Digits[(n % 10) + 1]>>

\* strings.Contains
Contains(s, substr) ==
    \E i \in 1..(Len(s) - Len(substr) + 1) :
        SubSeq(s, i, i + Len(substr) - 1) = substr

\* the elements of a path, between its separators
RECURSIVE SplitFrom(_, _, _)
SplitFrom(path, i, element) ==
    IF i > Len(path) THEN <<element>>
    ELSE IF IsPathSeparator(path[i])
         THEN <<element>> \o SplitFrom(path, i + 1, <<>>)
         ELSE SplitFrom(path, i + 1, Append(element, path[i]))

\* the loop of filepath.Clean over the elements: empty and "." elements are
\* dropped; a ".." element takes back the element before it, if there is one
\* that is not itself a kept "..", is kept on a path that is not rooted, and
\* is dropped at the root
RECURSIVE CleanElements(_, _, _)
CleanElements(elements, rooted, out) ==
    IF elements = <<>> THEN out
    ELSE LET e == Head(elements)
             rest == Tail(elements)
         IN CASE e = <<>> \/ e = <<".">> -> CleanElements(rest, rooted, out)
              [] e = <<".", ".">> ->
                   IF out # <<>> /\ out[Len(out)] # <<".", ".">>
                   THEN CleanElements(rest, rooted, SubSeq(out, 1, Len(out) - 1))
                   ELSE IF ~rooted
                        THEN CleanElements(rest, rooted, Append(out, e))
                        ELSE CleanElements(rest, rooted, out)
              [] OTHER -> CleanElements(rest, rooted, Append(out, e))

\* the elements written one after the other, a separator between two
RECURSIVE JoinElements(_)
JoinElements(elements) ==
    IF elements = <<>> THEN <<>>
    ELSE IF Len(elements) = 1 THEN elements[1]
    ELSE elements[1] \o <<"/">> \o JoinElements(Tail(elements))

\* filepath.Clean
Clean(path) ==
    IF path = <<>> THEN <<".">>
    ELSE LET rooted == IsPathSeparator(path[1])
             out == CleanElements(SplitFrom(path, 1, <<>>), rooted, <<>>)
         IN IF rooted THEN <<"/">> \o JoinElements(out)
            ELSE IF out = <<>> THEN <<".">>
            ELSE JoinElements(out)

\* the index of the last separator of the path, 0 if it has none
RECURSIVE LastSeparator(_, _)
LastSeparator(path, i) ==
    IF i < 1 THEN 0
    ELSE IF IsPathSeparator(path[i]) THEN i
    ELSE LastSeparator(path, i - 1)

\* filepath.Dir
Dir(path) == Clean(SubSeq(path, 1, LastSeparator(path, Len(path))))

-----------------------------------------------------------------------------
(* Errors. An error value is [msg, is]: its outermost message and the set  *)
(* of sentinel errors errors.Is finds in its chain.                        *)

ErrCorruptedImage    == "ErrCorruptedImage"
ErrUnsupportedFormat == "ErrUnsupportedFormat"
ErrPermissionDenied  == "ErrPermissionDenied"
ErrSourceNotFound    == "ErrSourceNotFound"
ErrFatal             == "ErrFatal"

\* the sentinels of package io/fs that a failed os.Stat carries
FsErrNotExist   == "fs.ErrNotExist"
FsErrPermission == "fs.ErrPermission"

Nil == [msg |-> "nil", is |-> {}]

\* errors.Is
ErrorsIs(err, target) == target \in err.is

\* the error of os.Stat on a path in state st ("absent" or "denied")
OsStatError(st) ==
    IF st = "absent" THEN [msg |-> "stat: no such file or directory", is |-> {FsErrNotExist}]
    ELSE [msg |-> "stat: permission denied", is |-> {FsErrPermission}]

\* the error of a call on the file system that fails for the given reason:
\* errors.Is finds fs.ErrNotExist in ENOENT and fs.ErrPermission in EACCES,
\* and neither in the others (EIO, ENOSPC, ...)
OsError(errno) ==
    [msg |-> errno,
     is |-> CASE errno = "ENOENT" -> {FsErrNotExist}
              [] errno = "EACCES" -> {FsErrPermission}
              [] OTHER -> {}]

\* fmt.Errorf(msg + ": %w", err)
Wrap(msg, err) == [msg |-> msg, is |-> err.is]

\* fmt.Errorf(msg), no wrapped error
NewError(msg) == [msg |-> msg, is |-> {}]


-----------------------------------------------------------------------------
(* The files and the requests of the model.                                *)

APng   == <<"a",".","p","n","g">>
BJpg   == <<"b",".","J","P","G">>
CJpeg  == <<"c",".","j","p","e","g">>
NPng   == <<"n",".","p","n","g">>
PPng   == <<"p",".","p","n","g">>
OJpg   == <<"o",".","j","p","g">>
Empty  == <<>>

\* the source files Convert is called on: APng is a file that is converted;
\* BJpg and CJpeg exist, NPng does not exist, PPng cannot be stat'ed
SourcePaths == {APng, BJpg, CJpeg, NPng, PPng}

\* target formats
Jpg      == <<"j","p","g">>
JpgUpper == <<"J","P","G">>
Jpeg     == <<"j","p","e","g">>
JpegUpper == <<"J","P","E","G">>
PngUpper == <<"P","N","G">>

Request(path, format, outputPath) ==
    [path |-> path, format |-> format, outputPath |-> outputPath]

\* the calls made: APng is converted to jpg (the format in either case) and
\* asked for in its own format; the
\* jpg and jpeg files are asked for in both spellings; the two files that
\* cannot be stat'ed are asked for in jpg
Requests ==
    {Request(APng, Jpg, Empty), Request(APng, JpgUpper, Empty),
     Request(APng, PngUpper, Empty),
     Request(BJpg, Jpg, Empty), Request(BJpg, JpegUpper, Empty),
     Request(CJpeg, Jpg, Empty), Request(CJpeg, Jpeg, Empty),
     Request(NPng, Jpg, Empty), Request(PPng, Jpg, Empty)}

\* size of the source files, of an output file another program wrote, and
\* the sizes the codec produces
SourceSize == 4
ForeignSize == 3
CodecSizes == {5, 7}

\* the settings (Quality, MaxDimension) a converter is constructed with:
\* one that resizes and one that does not (MaxDimension 0); and the values
\* of quality and max-dimension settings are compared over
Settings == {<<1, 23>>, <<12, 0>>}
SettingValues == {0, 1, 3, 12, 23}

\* a file; the modification time is tracked for the source files, the only
\* files whose modification time a call reads, and is 0 for the files that
\* are written (outputs and backups)
NoFile == [st |-> "absent", size |-> 0, mtime |-> 0]
File(size, mtime) == [st |-> "file", size |-> size, mtime |-> mtime]
Written(size) == File(size, 0)
Denied == [st |-> "denied", size |-> 0, mtime |-> 0]

-----------------------------------------------------------------------------
(* internal/converter/convert.go                                           *)

\* getFileExtension
getFileExtension(path) ==
    LET ext == Ext(path) IN
    IF Len(ext) > 1 THEN ToLower(SubSeq(ext, 2, Len(ext))) ELSE Empty

\* isAlreadyInFormat without the jpg/jpeg rule
isAlreadyInFormatExact(currentExt, targetFormat) == currentExt = targetFormat

\* isAlreadyInFormat
isAlreadyInFormat(currentExt, targetFormat) ==
    IF currentExt = targetFormat THEN TRUE
    ELSE \/ (currentExt = <<"j","p","g">> /\ targetFormat = <<"j","p","e","g">>)
         \/ (currentExt = <<"j","p","e","g">> /\ targetFormat = <<"j","p","g">>)

\* getConfigHash without the separator between the two numbers
ConfigHashOfNoSeparator(quality, maxDimension) ==
    FormatUint(quality) \o FormatUint(maxDimension)

\* getConfigHash, of the settings (quality, maxDimension)
ConfigHashOf(quality, maxDimension) ==
    FormatUint(quality) \o <<"_">> \o FormatUint(maxDimension)

\* ic.getConfigHash()
getConfigHash == ConfigHashOf(options.Quality, options.MaxDimension)

\* getCacheKey without the path of the source
getCacheKeyNoPath(inputPath, format) == format \o getConfigHash

\* getCacheKey: md5 of the three strings written one after the other; md5 is
\* taken to be collision-free, so the key is the concatenation itself
getCacheKey(inputPath, format) == inputPath \o format \o getConfigHash

\* isCacheValid with !Before in the place of After: a source as old as the
\* entry makes the entry stale
isCacheValidNotBefore(fsv, cached, sourceModTime, expectedOutputPath) ==
    IF sourceModTime >= cached.lastModified THEN FALSE
    ELSE IF fsv[expectedOutputPath].st # "file" THEN FALSE
    ELSE IF cached.configHash # ConfigHashOf(options.Quality, options.MaxDimension)
         THEN FALSE
    ELSE TRUE

\* isCacheValid without the stat of the output file
isCacheValidNoStat(fsv, cached, sourceModTime, expectedOutputPath) ==
    IF sourceModTime > cached.lastModified THEN FALSE
    ELSE IF cached.configHash # ConfigHashOf(options.Quality, options.MaxDimension)
         THEN FALSE
    ELSE TRUE

\* isCacheValid, over the file system as it is when the call makes it
isCacheValid(fsv, cached, sourceModTime, expectedOutputPath) ==
    IF sourceModTime > cached.lastModified THEN FALSE
    ELSE IF fsv[expectedOutputPath].st # "file" THEN FALSE
    ELSE IF cached.configHash # getConfigHash THEN FALSE
    ELSE TRUE

\* the path createBackup copies to: <dir>/backup/<base>.bak, for a path
\* without directory part
BackupPath(path) ==
    <<"b","a","c","k","u","p","/">> \o path \o <<".","b","a","k">>

\* filepath.Base, of a path that does not end in a separator
Base(path) == SubSeq(path, LastSeparator(path, Len(path)) + 1, Len(path))

\* the name os.CreateTemp(filepath.Dir(dst), ".tmp_" + filepath.Base(dst))
\* gives the n-th temporary file: a name not in use
TmpPath(dst, n) ==
    Dir(dst) \o <<"/">> \o <<".","t","m","p","_">> \o Base(dst) \o FormatUint(n)

\* the temporary files of the backups of one source that can be on disk at
\* once: the one of the call in progress and those that calls which did not
\* return have left behind
MaxTemps == 2
TmpPaths(path) == {TmpPath(BackupPath(path), n) : n \in 1..MaxTemps}

\* result.NewPath
NewPathOf(path, format, outputPath) ==
    IF outputPath # Empty THEN outputPath
    ELSE TrimSuffix(path, Ext(path)) \o <<".">> \o format

\* every path of the file system of the model
AllPaths ==
    SourcePaths
    \cup {NewPathOf(r.path, ToLower(r.format), r.outputPath) : r \in Requests}
    \cup {BackupPath(p) : p \in SourcePaths}
    \cup TmpPaths(APng)

\* sync.Map Store and Delete
CacheStore(c, key, entry) ==
    [k \in DOMAIN c \cup {key} |-> IF k = key THEN entry ELSE c[k]]
CacheDelete(c, key) == [k \in DOMAIN c \ {key} |-> c[k]]
EmptyCache == [k \in {} |-> 0]

\* what the steps of a call meet outside the converter. The codec: the file
\* cannot be decoded (line 183), the resize fails (line 203), the export
\* fails (line 213), os.WriteFile (line 218) fails before it has opened the
\* output, after it has truncated it, after a part of the bytes is written,
\* or in the Close that follows the write of every byte. The backup: the
\* step that fails (MkdirAll, Open, CreateTemp, CopyBuffer, Sync, Close,
\* Rename), what the failing call on the file system reports, the bytes a
\* failed copy has written, and whether the temporary file can be removed
\* (lines 345 and 362 do not look at the error of os.Remove). The buffer
\* pool: sync.Pool.Get hands out one of the pointers that were put, or a
\* new buffer. The removal of the source.
CodecOutcomes ==
    {"ok", "corrupt", "resize", "export", "write-open", "write-short",
     "write-part", "write-close"}
BackupOutcomes ==
    {"ok", "mkdir", "open", "temp", "copy", "sync", "close", "rename"}
GetOutcomes == {"new", "pointer"}
RemoveOutcomes == {"ok", "fail"}
FailErrnos == {"EACCES", "EIO"}
MinCodecSize == CHOOSE n \in CodecSizes : \A m \in CodecSizes : n <= m
\* the bytes of a file whose write stopped in the middle
PartSize == 2
PartSizes == {0, PartSize}
\* the pointers the pool holds when a call that may make a backup is made:
\* a call is made only while the pool holds fewer
MaxPooled == 2
NoChoice == [codec |-> "ok", csize |-> MinCodecSize, bak |-> "ok",
             got |-> "new", errno |-> "EIO", part |-> 0, untmp |-> "ok",
             rm |-> "ok"]

\* what is shared by the calls made on one converter: the files, the cache
\* and the buffer pool
Shared(fsv, cachev, pool) == [fs |-> fsv, cache |-> cachev, pool |-> pool]

\* the files and the cache as a call found them, when it is known
NoSnapshot == [fs |-> <<>>, cache |-> <<>>]

\* no call: the record of a call holds where the call stands (pc), its
\* arguments and local variables (err: the error copyFileOptimized is to
\* return), the outcomes it has met (ch), where it
\* returned (ret), and what is kept of its history: whether it ran the codec
\* and evicted an entry, whether another program changed a file while it
\* ran (disturbed), the files and the cache as it found them (before), and
\* whether it follows at once a call for the same source and format that
\* failed over an existing output file (afterFailure)
NoCall ==
    [pc |-> "idle", path |-> Empty, format |-> Empty, outputPath |-> Empty,
     ch |-> NoChoice, stat |-> NoFile, newStat |-> NoFile, cacheKey |-> Empty,
     cached |-> Nil, tmp |-> Empty, src |-> 0, err |-> Nil, codec |-> FALSE,
     evicted |-> FALSE, ret |-> "none", disturbed |-> FALSE,
     afterFailure |-> FALSE, before |-> NoSnapshot,
     result |-> [OriginalPath |-> Empty, NewPath |-> Empty, OriginalSize |-> 0,
                 NewSize |-> 0, Error |-> Nil]]

\* lines 93-97: the call is made
NewCall(path, format, outputPath) ==
    [NoCall EXCEPT !.pc = "start", !.path = path, !.format = format,
                   !.outputPath = outputPath, !.result.OriginalPath = path]

\* the call has ended: it has returned, or it has panicked ("impossible": it
\* was to meet an outcome that the state it is run in does not allow)
Ended(c) == c.pc \in {"done", "panic", "impossible"}
InProgress(c) == c.pc # "idle" /\ ~Ended(c)

\* the call returns, or goes on to its next access of what is shared
Return(sh, c, ret) == [sh |-> sh, c |-> [c EXCEPT !.pc = "done", !.ret = ret]]
Goto(sh, c, pc) == [sh |-> sh, c |-> [c EXCEPT !.pc = pc]]

\* lines 103-125: os.Stat of the source, the format check, the output path
\* and the cache key
StatStage(sh, c) ==
    LET stat == sh.fs[c.path]
        format == ToLower(c.format)
        d == [c EXCEPT !.stat = stat]
    IN IF stat.st # "file"
       THEN Return(sh, [d EXCEPT !.result.Error =
                           Wrap("failed to stat file", OsStatError(stat.st))],
                   "stat")
       ELSE IF isAlreadyInFormat(getFileExtension(c.path), format)
       THEN Return(sh, [d EXCEPT !.result.OriginalSize = stat.size,
                                 !.result.Error =
                                     NewError("file already in target format")],
                   "already")
       ELSE Goto(sh, [d EXCEPT !.format = format,
                               !.result.OriginalSize = stat.size,
                               !.result.NewPath =
                                   NewPathOf(c.path, format, c.outputPath),
                               !.cacheKey = getCacheKey(c.path, format)],
                 "load")

\* line 126: cache.Load
CacheStage(sh, c) ==
    IF c.cacheKey \in DOMAIN sh.cache
    THEN Goto(sh, [c EXCEPT !.cached = sh.cache[c.cacheKey]], "valid")
    ELSE Goto(sh, c, "existing")

\* lines 127-131: isCacheValid, which stats the output file; a valid entry
\* ends the call
ValidStage(sh, c) ==
    IF isCacheValid(sh.fs, c.cached, c.stat.mtime, c.result.NewPath)
    THEN Return(sh, [c EXCEPT !.result.NewSize = c.cached.outputSize], "hit")
    ELSE Goto(sh, c, "delete")

\* line 132: cache.Delete
EvictStage(sh, c) ==
    Goto([sh EXCEPT !.cache = CacheDelete(sh.cache, c.cacheKey)],
         [c EXCEPT !.evicted = TRUE], "existing")

\* the dry-run check made only when no backup is asked for
DryRunStageAfterBackup(sh, c) ==
    IF options.Backup THEN Goto(sh, c, "mkdir")
    ELSE IF options.DryRun THEN Return(sh, c, "dry")
    ELSE Goto(sh, c, "codec")

\* lines 145-149: a dry run ends here; otherwise the backup, if asked for,
\* comes before the codec
DryRunStage(sh, c) ==
    IF options.DryRun THEN Return(sh, c, "dry")
    ELSE IF options.Backup THEN Goto(sh, c, "mkdir")
    ELSE Goto(sh, c, "codec")

\* lines 135-136: os.Stat of the output path
ExistingOutputStage(sh, c) ==
    LET newStat == sh.fs[c.result.NewPath] IN
    IF newStat.st = "file"
    THEN Goto(sh, [c EXCEPT !.newStat = newStat,
                            !.result.NewSize = newStat.size], "store")
    ELSE DryRunStage(sh, c)

\* lines 137-142: cache.Store of the file found at the output path, under
\* the time of the clock
RecordStage(sh, c) ==
    DryRunStage([sh EXCEPT !.cache =
                    CacheStore(sh.cache, c.cacheKey,
                        [outputPath   |-> c.result.NewPath,
                         outputSize   |-> c.newStat.size,
                         lastModified |-> now,
                         configHash   |-> getConfigHash])],
                c)

\* the names os.CreateTemp can give the temporary file of a backup: those
\* of the file system of the model that no file bears
FreeTemps(fsv, path) ==
    {n \in 1..MaxTemps :
        /\ TmpPath(BackupPath(path), n) \in DOMAIN fsv
        /\ fsv[TmpPath(BackupPath(path), n)].st = "absent"}
FreeTemp(fsv, path) ==
    LET free == FreeTemps(fsv, path) IN
    TmpPath(BackupPath(path), CHOOSE n \in free : \A m \in free : n <= m)

\* the call returns the error of createBackup (lines 150-153)
BackupError(sh, c, err) ==
    Return(sh, [c EXCEPT !.result.Error = Wrap("backup failed", err)],
           "backup")

\* createBackup, lines 319-323: os.MkdirAll of the backup directory
createBackup(sh, c) ==
    IF c.ch.bak = "mkdir"
    THEN BackupError(sh, c, Wrap("failed to create backup directory",
                                 OsError(c.ch.errno)))
    ELSE Goto(sh, c, "open")

\* copyFileOptimized, lines 331-335: os.Open of the source, which another
\* program may have removed since the call stat'ed it
OpenStage(sh, c) ==
    IF sh.fs[c.path].st # "file"
    THEN BackupError(sh, c, Wrap("failed to open source",
                                 OsStatError(sh.fs[c.path].st)))
    ELSE IF c.ch.bak = "open"
    THEN BackupError(sh, c, Wrap("failed to open source",
                                 OsError(c.ch.errno)))
    ELSE Goto(sh, [c EXCEPT !.src = sh.fs[c.path].size], "temp")

\* lines 337-340: os.CreateTemp
CreateTempStage(sh, c) ==
    IF c.ch.bak = "temp"
    THEN BackupError(sh, c, Wrap("failed to create temp file",
                                 OsError(c.ch.errno)))
    ELSE LET tmp == FreeTemp(sh.fs, c.path) IN
         Goto([sh EXCEPT !.fs[tmp] = Written(0)], [c EXCEPT !.tmp = tmp],
              "get")

\* line 349 and lines 70-72: bufPool.get. What put has stored in the pool
\* is a pointer to a slice (line 75), on which the type assertion of get
\* panics (line 71): the call does not return, and the temporary file
\* stays, since the deferred function finds err nil (lines 342-347)
GetStage(sh, c) ==
    IF c.ch.got = "pointer"
    THEN IF sh.pool > 0
         THEN [sh |-> [sh EXCEPT !.pool = @ - 1], c |-> [c EXCEPT !.pc = "panic"]]
         ELSE [sh |-> sh, c |-> [c EXCEPT !.pc = "impossible"]]
    ELSE Goto(sh, c, "copy")

\* a step of the copy has failed: copyFileOptimized is to return the error,
\* and its deferred functions run, the put first
CopyFailed(sh, c, msg) ==
    Goto(sh, [c EXCEPT !.err = Wrap(msg, OsError(c.ch.errno))], "put")

\* lines 352-354: io.CopyBuffer, of the source as it was opened
CopyStage(sh, c) ==
    IF c.ch.bak = "copy"
    THEN CopyFailed([sh EXCEPT !.fs[c.tmp] = Written(c.ch.part)], c,
                    "failed to copy data")
    ELSE Goto([sh EXCEPT !.fs[c.tmp] = Written(c.src)], c, "sync")

\* lines 355-357: tmpFile.Sync
SyncStage(sh, c) ==
    IF c.ch.bak = "sync" THEN CopyFailed(sh, c, "failed to sync temp file")
    ELSE Goto(sh, c, "close")

\* lines 358-360: tmpFile.Close
CloseStage(sh, c) ==
    IF c.ch.bak = "close" THEN CopyFailed(sh, c, "failed to close temp file")
    ELSE Goto(sh, c, "rename")

\* line 361: os.Rename gives the temporary file the name of the backup
RenameStage(sh, c) ==
    IF c.ch.bak = "rename"
    THEN Goto(sh, [c EXCEPT !.err = Wrap("failed to rename temp file",
                                         OsError(c.ch.errno))],
              "unlink")
    ELSE Goto([sh EXCEPT !.fs[BackupPath(c.path)] = sh.fs[c.tmp],
                         !.fs[c.tmp] = NoFile],
              c, "put")

\* os.Remove of the temporary file, whose error is not looked at
RemoveTemp(sh, c) ==
    IF c.ch.untmp = "ok" THEN [sh EXCEPT !.fs[c.tmp] = NoFile] ELSE sh

\* line 362: os.Remove of the temporary file after a failed rename
UnlinkStage(sh, c) == Goto(RemoveTemp(sh, c), c, "put")

\* the pool after bufPool.put
Pooled(pool) == pool + 1

\* lines 149-154 with the error of createBackup dropped: the call goes on
BackupStageIgnoreError(sh, c) ==
    Goto([sh EXCEPT !.pool = Pooled(@)], c, "codec")

\* line 350 and lines 74-76: the deferred bufPool.put, the first of the
\* deferred functions to run; a copy that has returned nil lets the call
\* go on to the codec (lines 150-154)
BackupStage(sh, c) ==
    Goto([sh EXCEPT !.pool = Pooled(@)], c,
         IF c.err = Nil THEN "codec" ELSE "cleanup")

\* lines 342-347 and 150-153: the deferred function closes the temporary
\* file and removes it, and the call returns the error
CleanupStage(sh, c) ==
    BackupError(RemoveTemp(sh, c), c, c.err)

\* lines 156-159 and 182-186: convertImage is called and reads the source
ConvertStage(sh, c) ==
    IF c.ch.codec = "corrupt" \/ sh.fs[c.path].st # "file"
    THEN Return(sh, [c EXCEPT !.codec = TRUE,
                              !.result.Error =
                                  [msg |-> "corrupted image",
                                   is |-> {ErrCorruptedImage}]],
                "codec")
    ELSE Goto(sh, [c EXCEPT !.codec = TRUE], "write")

\* convertImage, lines 188-222, on the image read: [err, fs]
convertImage(fsv, outputPath, ch) ==
    CASE ch.codec = "resize" ->
           [err |-> NewError("failed to resize image"), fs |-> fsv]
      [] ch.codec = "export" ->
           [err |-> NewError("failed to export image"), fs |-> fsv]
      [] ch.codec = "write-open" ->
           [err |-> Wrap("failed to write image to file", OsError(ch.errno)),
            fs |-> fsv]
      [] ch.codec = "write-short" ->
           [err |-> NewError("failed to write image to file"),
            fs |-> [fsv EXCEPT ![outputPath] = Written(0)]]
      [] ch.codec = "write-part" ->
           [err |-> NewError("failed to write image to file"),
            fs |-> [fsv EXCEPT ![outputPath] = Written(PartSize)]]
      [] ch.codec = "write-close" ->
           [err |-> NewError("failed to write image to file"),
            fs |-> [fsv EXCEPT ![outputPath] = Written(ch.csize)]]
      [] OTHER ->
           [err |-> Nil, fs |-> [fsv EXCEPT ![outputPath] = Written(ch.csize)]]

\* lines 156-159, when convertImage returns
WriteStage(sh, c) ==
    LET r == convertImage(sh.fs, c.result.NewPath, c.ch) IN
    IF r.err # Nil
    THEN Return([sh EXCEPT !.fs = r.fs], [c EXCEPT !.result.Error = r.err],
                "codec")
    ELSE Goto([sh EXCEPT !.fs = r.fs], c, "stat")

\* line 171: a source that is kept ends the call
KeepStage(sh, c) ==
    IF options.KeepOriginal THEN Return(sh, c, "ok") ELSE Goto(sh, c, "remove")

\* lines 161-162: os.Stat of the output file
StatOutputStage(sh, c) ==
    LET newStat == sh.fs[c.result.NewPath] IN
    IF newStat.st = "file"
    THEN Goto(sh, [c EXCEPT !.newStat = newStat,
                            !.result.NewSize = newStat.size], "restore")
    ELSE KeepStage(sh, c)

\* lines 163-168: cache.Store of the output, under the modification time of
\* the source
StoreStage(sh, c) ==
    KeepStage([sh EXCEPT !.cache =
                  CacheStore(sh.cache, c.cacheKey,
                      [outputPath   |-> c.result.NewPath,
                       outputSize   |-> c.newStat.size,
                       lastModified |-> c.stat.mtime,
                       configHash   |-> getConfigHash])],
              c)

\* the error of os.Remove: the file is gone, or the removal is refused
OsRemoveError(st) ==
    IF st # "file" THEN [msg |-> "remove: no such file or directory",
                         is |-> {FsErrNotExist}]
    ELSE [msg |-> "remove: permission denied", is |-> {FsErrPermission}]

\* lines 172-178 with a rollback: a failed removal takes the output back
RemoveStageRollback(sh, c) ==
    IF c.ch.rm # "ok" \/ sh.fs[c.path].st # "file"
    THEN Return([sh EXCEPT !.fs[c.result.NewPath] = NoFile],
                [c EXCEPT !.result.Error =
                    Wrap("failed to remove original",
                         OsRemoveError(sh.fs[c.path].st))],
                "remove")
    ELSE Return([sh EXCEPT !.fs[c.path] = NoFile], c, "ok")

\* lines 172-178: os.Remove of the source, which fails on a file that is
\* gone
RemoveStage(sh, c) ==
    IF c.ch.rm # "ok" \/ sh.fs[c.path].st # "file"
    THEN Return(sh, [c EXCEPT !.result.Error =
                        Wrap("failed to remove original",
                             OsRemoveError(sh.fs[c.path].st))],
                "remove")
    ELSE Return([sh EXCEPT !.fs[c.path] = NoFile], c, "ok")

\* one step of a call, from one access of the files, of the cache or of the
\* buffer pool to the next: the shared state and the call after it
CallStep(sh, c) ==
    CASE c.pc = "start" -> StatStage(sh, c)
      [] c.pc = "load" -> CacheStage(sh, c)
      [] c.pc = "valid" -> ValidStage(sh, c)
      [] c.pc = "delete" -> EvictStage(sh, c)
      [] c.pc = "existing" -> ExistingOutputStage(sh, c)
      [] c.pc = "store" -> RecordStage(sh, c)
      [] c.pc = "mkdir" -> createBackup(sh, c)
      [] c.pc = "open" -> OpenStage(sh, c)
      [] c.pc = "temp" -> CreateTempStage(sh, c)
      [] c.pc = "get" -> GetStage(sh, c)
      [] c.pc = "copy" -> CopyStage(sh, c)
      [] c.pc = "sync" -> SyncStage(sh, c)
      [] c.pc = "close" -> CloseStage(sh, c)
      [] c.pc = "rename" -> RenameStage(sh, c)
      [] c.pc = "unlink" -> UnlinkStage(sh, c)
      [] c.pc = "put" -> BackupStage(sh, c)
      [] c.pc = "cleanup" -> CleanupStage(sh, c)
      [] c.pc = "codec" -> ConvertStage(sh, c)
      [] c.pc = "write" -> WriteStage(sh, c)
      [] c.pc = "stat" -> StatOutputStage(sh, c)
      [] c.pc = "restore" -> StoreStage(sh, c)
      [] c.pc = "remove" -> RemoveStage(sh, c)
      [] OTHER -> [sh |-> sh, c |-> c]

\* a step of the backup succeeds, or fails for one of the reasons
FailsOrNot(c, step) ==
    {[c.ch EXCEPT !.bak = "ok"]}
    \cup {[c.ch EXCEPT !.bak = step, !.errno = e] : e \in FailErrnos}

\* os.Remove of the temporary file succeeds or fails; of a file that is
\* gone its error is that there is no file, and nothing changes
RemovedOrNot(sh, c) ==
    {[c.ch EXCEPT !.untmp = o] :
        o \in IF sh.fs[c.tmp].st = "file" THEN RemoveOutcomes ELSE {"ok"}}

\* the outcomes the step the call stands at may meet: the pool hands out a
\* pointer only if it holds one; there is no resize unless a maximal
\* dimension is set
StepChoices(sh, c) ==
    CASE c.pc = "mkdir" -> FailsOrNot(c, "mkdir")
      [] c.pc = "open" -> FailsOrNot(c, "open")
      [] c.pc = "temp" -> FailsOrNot(c, "temp")
      [] c.pc = "get" ->
           {[c.ch EXCEPT !.got = g] :
               g \in IF sh.pool > 0 THEN GetOutcomes ELSE {"new"}}
      [] c.pc = "copy" ->
           {[c.ch EXCEPT !.bak = "ok"]}
           \cup {[c.ch EXCEPT !.bak = "copy", !.part = n] : n \in PartSizes}
      [] c.pc = "sync" ->
           {[c.ch EXCEPT !.bak = b] : b \in {"ok", "sync"}}
      [] c.pc = "close" ->
           {[c.ch EXCEPT !.bak = b] : b \in {"ok", "close"}}
      [] c.pc = "rename" -> FailsOrNot(c, "rename")
      [] c.pc = "unlink" -> RemovedOrNot(sh, c)
      [] c.pc = "cleanup" -> RemovedOrNot(sh, c)
      [] c.pc = "codec" -> {[c.ch EXCEPT !.codec = o] : o \in {"ok", "corrupt"}}
      [] c.pc = "write" ->
           {[c.ch EXCEPT !.codec = o, !.csize = n] :
               o \in {"ok", "write-close"}, n \in CodecSizes}
           \cup {[c.ch EXCEPT !.codec = "write-open", !.errno = e] :
                    e \in FailErrnos}
           \cup {[c.ch EXCEPT !.codec = o] :
                    o \in {x \in {"resize", "export", "write-short",
                                  "write-part"} :
                              x = "resize" => options.MaxDimension > 0}}
      [] c.pc = "remove" -> {[c.ch EXCEPT !.rm = o] : o \in RemoveOutcomes}
      [] OTHER -> {c.ch}

\* a call run from where it stands to its end, no other call and no other
\* program acting in between, with the outcomes given
RECURSIVE RunCall(_, _)
RunCall(sh, c) ==
    IF Ended(c) THEN [sh |-> sh, c |-> c]
    ELSE LET n == CallStep(sh, c) IN RunCall(n.sh, n.c)

\* the outcomes a whole call may meet: a step that is not reached has the
\* outcome of NoChoice
Choices ==
    {ch \in [codec : CodecOutcomes, csize : CodecSizes, bak : BackupOutcomes,
             got : GetOutcomes, errno : FailErrnos, part : PartSizes,
             untmp : RemoveOutcomes, rm : RemoveOutcomes] :
        /\ ~options.Backup => (ch.bak = "ok" /\ ch.got = "new")
        /\ ch.got = "pointer" => (bufPool > 0 /\ ch.bak = "ok")
        /\ (ch.bak # "ok" \/ ch.got = "pointer") => ch.codec = "ok"
        /\ ch.codec \notin {"ok", "write-close"} => ch.csize = MinCodecSize
        /\ (ch.bak # "ok" \/ ch.got = "pointer") => ch.csize = MinCodecSize
        /\ (ch.bak # "ok" \/ ch.got = "pointer" \/ ch.codec # "ok") =>
               ch.rm = "ok"
        /\ (ch.bak \in {"ok", "copy", "sync", "close"}
               /\ ch.codec # "write-open") => ch.errno = "EIO"
        /\ ch.bak # "copy" => ch.part = 0
        /\ ch.bak \notin {"copy", "sync", "close", "rename"} =>
               ch.untmp = "ok"
        /\ options.KeepOriginal => ch.rm = "ok"
        /\ ch.codec = "resize" => options.MaxDimension > 0}


NoRun == [path |-> Empty, format |-> Empty, outputPath |-> Empty,
          modTime |-> 0, size |-> 0]

\* firstRun after a step of a call: a call that ran the codec to its end,
\* kept the source and was not disturbed is recorded when it returns; a
\* cache hit leaves the record; any other call for the same source and
\* format ends it
FirstRunAfter(c) ==
    IF ~Ended(c) THEN firstRun
    ELSE IF c.ret = "ok" /\ c.codec
    THEN IF options.KeepOriginal /\ ~c.disturbed
         THEN [path |-> c.path, format |-> c.format,
               outputPath |-> c.outputPath, modTime |-> c.stat.mtime,
               size |-> c.result.NewSize]
         ELSE NoRun
    ELSE IF /\ firstRun.path = c.path
            /\ firstRun.format = ToLower(c.format)
            /\ c.ret # "hit"
         THEN NoRun
         ELSE firstRun

\* the call that has just returned failed in the backup or in the codec,
\* and had found a file at its output path (line 136 sets NewSize from it)
FailedOverExistingOutput(call) ==
    /\ call.ret \in {"backup", "codec"}
    /\ call.result.NewSize > 0

\* the calls of the model: a call that may come to make a backup is made
\* only while the pool holds fewer than MaxPooled pointers and fewer than
\* MaxTemps temporary files of the source lie in the backup directory
WithinBounds(path, format) ==
    (/\ options.Backup
     /\ fs[path].st = "file"
     /\ ~isAlreadyInFormat(getFileExtension(path), ToLower(format)))
        => (bufPool < MaxPooled /\ FreeTemps(fs, path) # {})

\* ImageConverter.ConvertWithOutputPath is called, by a caller that makes
\* its calls one after the other: lines 93-125
ConvertWithOutputPath(path, format, outputPath) ==
    /\ ~InProgress(lastCall)
    /\ WithinBounds(path, format)
    /\ LET c == [NewCall(path, format, outputPath) EXCEPT
                    !.before = [fs |-> fs, cache |-> cache],
                    !.afterFailure =
                        /\ FailedOverExistingOutput(lastCall)
                        /\ lastCall.path = path
                        /\ ToLower(lastCall.format) = ToLower(format)]
           n == CallStep(Shared(fs, cache, bufPool), c)
       IN /\ lastCall' = n.c
          /\ firstRun' = FirstRunAfter(n.c)
    /\ UNCHANGED <<fs, cache, bufPool, now, options>>
    /\ UNCHANGED notConvVars

\* ImageConverter.Convert
Convert(path, format) == ConvertWithOutputPath(path, format, Empty)

\* the record of a call after a step: the local variables of a call that
\* has returned are gone
AfterStep(c) ==
    IF Ended(c)
    THEN [c EXCEPT !.ch = NoChoice, !.tmp = Empty, !.src = 0, !.err = Nil]
    ELSE c

\* the call in progress makes its next access: lines 126-179
ConvertProceed ==
    /\ InProgress(lastCall)
    /\ \E ch \in StepChoices(Shared(fs, cache, bufPool), lastCall) :
          LET n == CallStep(Shared(fs, cache, bufPool),
                            [lastCall EXCEPT !.ch = ch])
          IN /\ fs' = n.sh.fs
             /\ cache' = n.sh.cache
             /\ bufPool' = n.sh.pool
             /\ lastCall' = AfterStep(n.c)
             /\ firstRun' = FirstRunAfter(n.c)
    /\ UNCHANGED <<now, options>>
    /\ UNCHANGED notConvVars

-----------------------------------------------------------------------------
(* The environment of the converter: other programs and the user change    *)
(* the files, between two calls and while a call runs.                     *)

\* the files the environment changes
EnvSources == {APng}
EnvOutputs == {NewPathOf(r.path, ToLower(r.format), r.outputPath) :
                  r \in {q \in Requests : q.path = APng}} \ SourcePaths

\* the record of the call after a step of the environment: a call in
\* progress has been disturbed; the record of a call that has ended is
\* dropped
Disturbed(c) ==
    IF InProgress(c)
    THEN [c EXCEPT !.disturbed = TRUE, !.before = NoSnapshot]
    ELSE NoCall

\* the source is modified (or created): its modification time advances
EnvModify(p) ==
    /\ now < MaxTime
    /\ now' = now + 1
    /\ fs' = [fs EXCEPT ![p] = File(SourceSize, now + 1)]
    /\ lastCall' = Disturbed(lastCall)
    /\ UNCHANGED <<cache, bufPool, options, firstRun>>
    /\ UNCHANGED notConvVars

\* a file is deleted
EnvRemove(p) ==
    /\ fs[p].st = "file"
    /\ fs' = [fs EXCEPT ![p] = NoFile]
    /\ lastCall' = Disturbed(lastCall)
    /\ UNCHANGED <<cache, bufPool, now, options, firstRun>>
    /\ UNCHANGED notConvVars

\* another program writes a file at an output path
EnvCreate(p) ==
    /\ fs[p].st = "absent"
    /\ fs' = [fs EXCEPT ![p] = Written(ForeignSize)]
    /\ lastCall' = Disturbed(lastCall)
    /\ UNCHANGED <<cache, bufPool, now, options, firstRun>>
    /\ UNCHANGED notConvVars

\* the state after NewImageConverter(options), over a directory that holds
\* the source files and no output; the converters that make backups are
\* the ones that resize
ConvInit ==
    /\ fs = [p \in AllPaths |->
                CASE p \in {APng, BJpg, CJpeg} -> File(SourceSize, 0)
                  [] p = PPng -> Denied
                  [] OTHER -> NoFile]
    /\ cache = EmptyCache
    /\ now = 0
    /\ options \in {o \in [Quality : {s[1] : s \in Settings},
                          MaxDimension : {s[2] : s \in Settings},
                          KeepOriginal : BOOLEAN, DryRun : BOOLEAN,
                          Backup : BOOLEAN] :
                        /\ <<o.Quality, o.MaxDimension>> \in Settings
                        /\ o.Backup => o.MaxDimension > 0}
    /\ lastCall = NoCall
    /\ firstRun = NoRun

ConvNext ==
    \/ \E r \in Requests : ConvertWithOutputPath(r.path, r.format, r.outputPath)
    \/ ConvertProceed
    \/ \E p \in EnvSources : EnvModify(p)
    \/ \E p \in EnvSources \cup EnvOutputs : EnvRemove(p)
    \/ \E p \in EnvOutputs : EnvCreate(p)

-----------------------------------------------------------------------------
(* The worker pool (package worker), as section 4.3 and section 5 of the   *)
(* specification describe it: a fixed number of workers, a bounded job     *)
(* queue and a result stream.                                              *)

Workers == 1..NumWorkers
JobIds == 1..NumJobs
NoJob == 0

\* what ImageConverter.Convert does for a job: it returns a result without
\* or with an error, or it panics
JobOutcomes == {"ok", "error", "panic"}

\* a ConversionResult on the result stream, as far as the pool is concerned
PoolResult(job, err, recovered) ==
    [job |-> job, err |-> err, recovered |-> recovered]

\* processJob without the recovery boundary: a panic ends the job with no
\* result
processJobNoRecover(job, outcome) ==
    CASE outcome = "ok"    -> <<PoolResult(job, FALSE, FALSE)>>
      [] outcome = "error" -> <<PoolResult(job, TRUE, FALSE)>>
      [] OTHER             -> <<>>

\* the recovery boundary around one job: the results the worker publishes
\* for the job, a panic being turned into an error-bearing result
processJob(job, outcome) ==
    CASE outcome = "ok"    -> <<PoolResult(job, FALSE, FALSE)>>
      [] outcome = "error" -> <<PoolResult(job, TRUE, FALSE)>>
      [] OTHER             -> <<PoolResult(job, TRUE, TRUE)>>

\* AddJob that never blocks
QueueHasRoomAlways == TRUE

\* AddJob blocks while the queue is full
QueueHasRoom == Len(jobs) < QueueCap

\* a send on the result stream blocks while the stream is full
ResultsHasRoom == Len(results) < ResultCap

\* Stop that closes the result stream without waiting for the workers
WorkersFinishedNoWait == TRUE

\* Stop waits for all workers to finish
WorkersFinished == \A w \in Workers : wk[w].pc = "done"

\* NewWorkerPool(workers, converter, rateLimit): nothing runs yet
NewWorkerPool ==
    /\ driver = "new"
    /\ todo = [i \in 1..NumJobs |-> i]
    /\ adding = NoJob
    /\ jobs = <<>>
    /\ jobsClosed = FALSE
    /\ wk = [w \in Workers |-> [pc |-> "new", job |-> NoJob, out |-> <<>>]]
    /\ results = <<>>
    /\ resClosed = FALSE
    /\ consumed = EmptyBag
    /\ sentLate = FALSE

\* Start(): launch the workers
Start ==
    /\ driver = "new"
    /\ driver' = "ready"
    /\ wk' = [w \in Workers |-> [wk[w] EXCEPT !.pc = "idle"]]
    /\ UNCHANGED <<todo, adding, jobs, jobsClosed, results, resClosed, consumed,
                   sentLate>>
    /\ UNCHANGED notPoolVars

\* AddJob(job) is called
AddJobCall ==
    /\ driver = "ready"
    /\ todo # <<>>
    /\ driver' = "addjob"
    /\ adding' = Head(todo)
    /\ todo' = Tail(todo)
    /\ UNCHANGED <<jobs, jobsClosed, wk, results, resClosed, consumed, sentLate>>
    /\ UNCHANGED notPoolVars

\* AddJob(job) enqueues and returns, once the queue has room
AddJobReturn ==
    /\ driver = "addjob"
    /\ QueueHasRoom
    /\ jobs' = Append(jobs, adding)
    /\ adding' = NoJob
    /\ driver' = "ready"
    /\ UNCHANGED <<todo, jobsClosed, wk, results, resClosed, consumed, sentLate>>
    /\ UNCHANGED notPoolVars

\* Stop() is called: no further jobs
StopCall ==
    /\ driver = "ready"
    /\ driver' = "stopping"
    /\ jobsClosed' = TRUE
    /\ UNCHANGED <<todo, adding, jobs, wk, results, resClosed, consumed, sentLate>>
    /\ UNCHANGED notPoolVars

\* Stop() closes the result stream and returns, once the workers have
\* finished
StopReturn ==
    /\ driver = "stopping"
    /\ WorkersFinished
    /\ resClosed' = TRUE
    /\ driver' = "stopped"
    /\ UNCHANGED <<todo, adding, jobs, jobsClosed, wk, results, consumed, sentLate>>
    /\ UNCHANGED notPoolVars

\* worker loop: dequeue a job
Dequeue(w) ==
    /\ wk[w].pc = "idle"
    /\ jobs # <<>>
    /\ wk' = [wk EXCEPT ![w] = [pc |-> "wait", job |-> Head(jobs), out |-> <<>>]]
    /\ jobs' = Tail(jobs)
    /\ UNCHANGED <<driver, todo, adding, jobsClosed, results, resClosed, consumed,
                   sentLate>>
    /\ UNCHANGED notPoolVars

\* a worker that leaves its loop only when the result stream is closed
WorkerExitOnClosedStream(w) ==
    /\ wk[w].pc = "idle"
    /\ jobs = <<>>
    /\ resClosed
    /\ wk' = [wk EXCEPT ![w].pc = "done"]
    /\ UNCHANGED <<driver, todo, adding, jobs, jobsClosed, results, resClosed,
                   consumed, sentLate>>
    /\ UNCHANGED notPoolVars

\* worker loop: the queue is drained and no further job comes
WorkerExit(w) ==
    /\ wk[w].pc = "idle"
    /\ jobs = <<>>
    /\ jobsClosed
    /\ wk' = [wk EXCEPT ![w].pc = "done"]
    /\ UNCHANGED <<driver, todo, adding, jobs, jobsClosed, results, resClosed,
                   consumed, sentLate>>
    /\ UNCHANGED notPoolVars

\* worker loop: RateLimiter.Wait() returns
RateLimiterWait(w) ==
    /\ wk[w].pc = "wait"
    /\ wk' = [wk EXCEPT ![w].pc = "convert"]
    /\ UNCHANGED <<driver, todo, adding, jobs, jobsClosed, results, resClosed,
                   consumed, sentLate>>
    /\ UNCHANGED notPoolVars

\* worker loop: ImageConverter.Convert(job), inside the recovery boundary
WorkerConvert(w) ==
    /\ wk[w].pc = "convert"
    /\ \E outcome \in JobOutcomes :
          wk' = [wk EXCEPT ![w].pc = "publish",
                           ![w].out = processJob(wk[w].job, outcome)]
    /\ UNCHANGED <<driver, todo, adding, jobs, jobsClosed, results, resClosed,
                   consumed, sentLate>>
    /\ UNCHANGED notPoolVars

\* worker loop: publish the ConversionResult
Publish(w) ==
    /\ wk[w].pc = "publish"
    /\ wk[w].out # <<>>
    /\ ResultsHasRoom
    /\ results' = Append(results, Head(wk[w].out))
    /\ sentLate' = (sentLate \/ resClosed)
    /\ wk' = [wk EXCEPT ![w].out = Tail(wk[w].out)]
    /\ UNCHANGED <<driver, todo, adding, jobs, jobsClosed, resClosed, consumed>>
    /\ UNCHANGED notPoolVars

\* worker loop: back to the queue
WorkerLoop(w) ==
    /\ wk[w].pc = "publish"
    /\ wk[w].out = <<>>
    /\ wk' = [wk EXCEPT ![w] = [pc |-> "idle", job |-> NoJob, out |-> <<>>]]
    /\ UNCHANGED <<driver, todo, adding, jobs, jobsClosed, results, resClosed,
                   consumed, sentLate>>
    /\ UNCHANGED notPoolVars

\* the consumer of Results() receives a result
Receive ==
    /\ results # <<>>
    /\ consumed' = consumed (+) SetToBag({Head(results)})
    /\ results' = Tail(results)
    /\ UNCHANGED <<driver, todo, adding, jobs, jobsClosed, wk, resClosed, sentLate>>
    /\ UNCHANGED notPoolVars

PoolNext ==
    \/ Start
    \/ AddJobCall
    \/ AddJobReturn
    \/ StopCall
    \/ StopReturn
    \/ \E w \in Workers : Dequeue(w)
    \/ \E w \in Workers : WorkerExit(w)
    \/ \E w \in Workers : RateLimiterWait(w)
    \/ \E w \in Workers : WorkerConvert(w)
    \/ \E w \in Workers : Publish(w)
    \/ \E w \in Workers : WorkerLoop(w)
    \/ Receive

\* no pool is in use
PoolIdle ==
    /\ driver = "none"
    /\ todo = <<>>
    /\ adding = NoJob
    /\ jobs = <<>>
    /\ jobsClosed = FALSE
    /\ wk = <<>>
    /\ results = <<>>
    /\ resClosed = FALSE
    /\ consumed = EmptyBag
    /\ sentLate = FALSE

\* no converter call is made
ConvIdle ==
    /\ fs = [p \in AllPaths |-> NoFile]
    /\ cache = EmptyCache
    /\ now = 0
    /\ options = [Quality |-> 0, MaxDimension |-> 0, KeepOriginal |-> FALSE,
                  DryRun |-> FALSE, Backup |-> FALSE]
    /\ lastCall = NoCall
    /\ firstRun = NoRun

-----------------------------------------------------------------------------
(* The statistics (package stats).                                         *)

\* the results AddResult is called with in one run of the model
MaxResults == 2

\* result.Duration, the same for every result of the model
JobDuration == 1

\* NewConversionStatistics()
NewConversionStatistics(batchMode) ==
    [TotalFiles |-> 0, ConvertedFiles |-> 0, SkippedFiles |-> 0,
     FailedFiles |-> 0, TotalSizeBefore |-> 0, TotalSizeAfter |-> 0,
     TotalDuration |-> 0, AverageDuration |-> 0, SpaceSaved |-> 0,
     CompressionRatio |-> [num |-> 0, den |-> 1],
     Failures |-> [Corrupted |-> 0, Permission |-> 0, Unsupported |-> 0,
                   Other |-> 0],
     DirectoriesProcessed |-> [d \in {} |-> 0],
     BatchMode |-> batchMode]

\* cs.DirectoriesProcessed[dir]++
CountDirectory(m, dir) ==
    [d \in DOMAIN m \cup {dir} |->
        IF d = dir THEN (IF dir \in DOMAIN m THEN m[dir] + 1 ELSE 1) ELSE m[d]]

\* the switch of AddResult, lines 66-75: the first kind, in this order, that
\* errors.Is finds in the error
CountFailure(f, err) ==
    IF ErrorsIs(err, ErrCorruptedImage) THEN [f EXCEPT !.Corrupted = @ + 1]
    ELSE IF ErrorsIs(err, ErrPermissionDenied) THEN [f EXCEPT !.Permission = @ + 1]
    ELSE IF ErrorsIs(err, ErrUnsupportedFormat) THEN [f EXCEPT !.Unsupported = @ + 1]
    ELSE [f EXCEPT !.Other = @ + 1]

\* lines 79-91 of AddResult without the return that ends the skipped
\* branch
CountDoneNoReturn(s, result) ==
    LET u == IF result.OriginalPath = Empty /\ result.NewSize = 0
             THEN [s EXCEPT !.SkippedFiles = @ + 1] ELSE s
        t == [u EXCEPT !.ConvertedFiles = @ + 1,
                       !.TotalSizeBefore = @ + result.OriginalSize,
                       !.TotalSizeAfter = @ + result.NewSize]
    IN IF t.BatchMode
       THEN [t EXCEPT !.DirectoriesProcessed =
                          CountDirectory(@, Dir(result.OriginalPath))]
       ELSE t

\* lines 79-91 of AddResult: a result without error
CountDone(s, result) ==
    IF result.OriginalPath = Empty /\ result.NewSize = 0
    THEN [s EXCEPT !.SkippedFiles = @ + 1]
    ELSE LET t == [s EXCEPT !.ConvertedFiles = @ + 1,
                            !.TotalSizeBefore = @ + result.OriginalSize,
                            !.TotalSizeAfter = @ + result.NewSize]
         IN IF t.BatchMode
            THEN [t EXCEPT !.DirectoriesProcessed =
                               CountDirectory(@, Dir(result.OriginalPath))]
            ELSE t

\* AddResult without the return that ends the error branch
AddResultToNoReturn(s, result) ==
    LET t == [s EXCEPT !.TotalFiles = @ + 1,
                       !.TotalDuration = @ + result.Duration]
    IN IF result.Error # Nil
       THEN CountDone([t EXCEPT !.FailedFiles = @ + 1,
                                !.Failures = CountFailure(@, result.Error)],
                      result)
       ELSE CountDone(t, result)

\* ConversionStatistics.AddResult, on the statistics s
AddResultTo(s, result) ==
    LET t == [s EXCEPT !.TotalFiles = @ + 1,
                       !.TotalDuration = @ + result.Duration]
    IN IF result.Error # Nil
       THEN [t EXCEPT !.FailedFiles = @ + 1,
                      !.Failures = CountFailure(@, result.Error)]
       ELSE CountDone(t, result)

\* int(a - b) of two uint64: the subtraction wraps modulo 2^64 and the
\* conversion reads the 64 bits as a signed number, which is the integer
\* a - b for totals below 2^63
SubAsInt(a, b) == a - b

\* ConversionStatistics.Calculate, on the statistics s
CalculateOf(s) ==
    LET t == IF s.TotalFiles > 0
             THEN [s EXCEPT !.AverageDuration = s.TotalDuration \div s.TotalFiles]
             ELSE s
    IN IF t.TotalSizeBefore > 0
       THEN [t EXCEPT !.SpaceSaved = SubAsInt(t.TotalSizeBefore, t.TotalSizeAfter),
                      !.CompressionRatio = [num |-> t.TotalSizeAfter,
                                            den |-> t.TotalSizeBefore]]
       ELSE t

\* a ConversionResult as AddResult receives it, its Duration set on return
\* (convert.go, line 100)
Timed(result) ==
    [OriginalPath |-> result.OriginalPath, NewPath |-> result.NewPath,
     OriginalSize |-> result.OriginalSize, NewSize |-> result.NewSize,
     Duration |-> JobDuration, Error |-> result.Error]

\* the results Convert returns for the files of the model
ConvertOutcomes ==
    {c \in {RunCall(Shared(fs, cache, bufPool),
                    [NewCall(r.path, r.format, r.outputPath) EXCEPT !.ch = ch]).c :
                r \in Requests, ch \in Choices} : c.pc = "done"}
ConvertResults == {Timed(o.result) : o \in ConvertOutcomes}

\* the results Convert returns for a file already in the target format
AlreadyInFormatResults ==
    {Timed(o.result) : o \in {c \in ConvertOutcomes : c.ret = "already"}}

\* the result of the test of the statistics (gopix_test.go, lines 274-279)
TestResult ==
    [OriginalPath |-> Empty, NewPath |-> Empty, OriginalSize |-> 1000,
     NewSize |-> 500, Duration |-> JobDuration, Error |-> Nil]

\* a result with neither path nor sizes
BlankResult ==
    [OriginalPath |-> Empty, NewPath |-> Empty, OriginalSize |-> 0,
     NewSize |-> 0, Duration |-> JobDuration, Error |-> Nil]

\* a converted result whose original size is 0
FromEmptyResult ==
    [OriginalPath |-> APng, NewPath |-> NewPathOf(APng, Jpg, Empty),
     OriginalSize |-> 0, NewSize |-> ForeignSize, Duration |-> JobDuration,
     Error |-> Nil]

\* results with an error of a declared kind, bare or wrapped, and one whose
\* chain holds two kinds
FailedResult(err) ==
    [OriginalPath |-> APng, NewPath |-> Empty, OriginalSize |-> SourceSize,
     NewSize |-> 0, Duration |-> JobDuration, Error |-> err]
KindResults ==
    {FailedResult([msg |-> "permission denied", is |-> {ErrPermissionDenied}]),
     FailedResult(Wrap("failed to open source",
                       [msg |-> "permission denied", is |-> {ErrPermissionDenied}])),
     FailedResult(Wrap("export",
                       [msg |-> "unsupported format", is |-> {ErrUnsupportedFormat}])),
     FailedResult([msg |-> "corrupted image",
                   is |-> {ErrCorruptedImage, ErrPermissionDenied}])}

\* the results AddResult is called with
ResultsToAdd ==
    ConvertResults \cup KindResults \cup {TestResult, BlankResult, FromEmptyResult}

\* AddResult(result)
AddResult(result) ==
    /\ Len(statLog) < MaxResults
    /\ stats' = AddResultTo(stats, result)
    /\ statLog' = Append(statLog, result)
    /\ statPhase' = "adding"
    /\ UNCHANGED notStatVars

\* Calculate()
Calculate ==
    /\ stats' = CalculateOf(stats)
    /\ statPhase' = "calculated"
    /\ UNCHANGED statLog
    /\ UNCHANGED notStatVars

\* the statistics of a run over the directory of the model, converted with
\* Backup set and KeepOriginal unset
StatsInit ==
    /\ stats \in {NewConversionStatistics(b) : b \in BOOLEAN}
    /\ statLog = <<>>
    /\ statPhase = "adding"

StatsNext ==
    \/ \E result \in ResultsToAdd : AddResult(result)
    \/ Calculate

\* no statistics are kept
StatsIdle ==
    /\ stats = NewConversionStatistics(FALSE)
    /\ statLog = <<>>
    /\ statPhase = "adding"

-----------------------------------------------------------------------------
(* The validator (package validator).                                      *)

\* the paths ValidateFilePath is called with: every string of at most
\* MaxPathLen characters over a letter, the dot and the separator
MaxPathLen == 5
PathChars == {"a", ".", "/"}
PathsToValidate == UNION {[1..n -> PathChars] : n \in 0..MaxPathLen}

\* the input directories ValidateInputs is called with, what the file
\* system holds at each, the formats and the lists of supported formats
In  == <<"i","n">>
Out == <<"o","u","t">>
DirPaths == {In, Out}
\* absent: nothing there; dir: a readable directory; file: a readable file;
\* unreadable: stat succeeds and open is refused; noaccess: stat and open
\* are both refused
DirStates == {"absent", "dir", "file", "unreadable", "noaccess"}
Png == <<"p","n","g">>
Gif == <<"g","i","f">>
FormatsToValidate == {Png, PngUpper, Gif, Empty}
SupportedLists == {<<Png, Jpg>>, <<Gif>>, <<>>}

\* fmt.Errorf("%w: " + msg, kind)
KindError(kind, msg) == [msg |-> msg, is |-> {kind}]

\* os.Stat(path); os.IsNotExist(err)
StatIsNotExist(path) ==
    IF path \in DOMAIN inputDirs THEN inputDirs[path] = "absent" ELSE TRUE

\* hasReadPermission: os.Open succeeds
hasReadPermission(path) ==
    IF path \in DOMAIN inputDirs THEN inputDirs[path] \in {"dir", "file"}
    ELSE FALSE

\* isValidFormat
isValidFormat(format, supportedFormats) ==
    \E i \in DOMAIN supportedFormats : format = supportedFormats[i]

\* ValidateInputs with the check of the format made first
ValidateInputsFormatFirst(inputDirectory, targetFormat, supportedFormats) ==
    IF ~isValidFormat(targetFormat, supportedFormats)
    THEN KindError(ErrUnsupportedFormat, "target format is not supported")
    ELSE IF inputDirectory = Empty
    THEN KindError(ErrSourceNotFound, "input directory is required")
    ELSE IF StatIsNotExist(inputDirectory)
    THEN KindError(ErrSourceNotFound, "input directory does not exist")
    ELSE IF ~hasReadPermission(inputDirectory)
    THEN KindError(ErrPermissionDenied,
                   "input directory does not have read permission")
    ELSE Nil

\* ValidateInputs
ValidateInputs(inputDirectory, targetFormat, supportedFormats) ==
    IF inputDirectory = Empty
    THEN KindError(ErrSourceNotFound, "input directory is required")
    ELSE IF StatIsNotExist(inputDirectory)
    THEN KindError(ErrSourceNotFound, "input directory does not exist")
    ELSE IF ~hasReadPermission(inputDirectory)
    THEN KindError(ErrPermissionDenied,
                   "input directory does not have read permission")
    ELSE IF ~isValidFormat(targetFormat, supportedFormats)
    THEN KindError(ErrUnsupportedFormat, "target format is not supported")
    ELSE Nil

\* ValidateFilePath
ValidateFilePath(path) ==
    LET cleanPath == Clean(path) IN
    IF Contains(cleanPath, <<".", ".">>)
    THEN NewError("invalid path (contains path traversal)")
    ELSE Nil

NoValCall ==
    [fn |-> "none", path |-> Empty, format |-> Empty, supported |-> <<>>,
     done |-> FALSE, err |-> Nil]

\* the calls to be made, with their arguments
ValidateInputsCalls ==
    {[fn |-> "ValidateInputs", path |-> d, format |-> f, supported |-> l,
      done |-> FALSE, err |-> Nil] :
        d \in DirPaths \cup {Empty}, f \in FormatsToValidate, l \in SupportedLists}
ValidateFilePathCalls ==
    {[fn |-> "ValidateFilePath", path |-> p, format |-> Empty,
      supported |-> <<>>, done |-> FALSE, err |-> Nil] : p \in PathsToValidate}

\* the call of ValidateInputs returns
CallValidateInputs ==
    /\ valCall.fn = "ValidateInputs"
    /\ ~valCall.done
    /\ valCall' = [valCall EXCEPT
                      !.done = TRUE,
                      !.err = ValidateInputs(valCall.path, valCall.format,
                                             valCall.supported)]
    /\ UNCHANGED inputDirs
    /\ UNCHANGED notValVars

\* the call of ValidateFilePath returns
CallValidateFilePath ==
    /\ valCall.fn = "ValidateFilePath"
    /\ ~valCall.done
    /\ valCall' = [valCall EXCEPT !.done = TRUE,
                                  !.err = ValidateFilePath(valCall.path)]
    /\ UNCHANGED inputDirs
    /\ UNCHANGED notValVars

\* a call of ValidateInputs over any state of the two directories, or a
\* call of ValidateFilePath
ValInit ==
    \/ /\ inputDirs \in [DirPaths -> DirStates]
       /\ valCall \in ValidateInputsCalls
    \/ /\ inputDirs = [d \in DirPaths |-> "absent"]
       /\ valCall \in ValidateFilePathCalls

ValNext ==
    \/ CallValidateInputs
    \/ CallValidateFilePath

\* no validation is made
ValIdle ==
    /\ inputDirs = [d \in DirPaths |-> "absent"]
    /\ valCall = NoValCall

-----------------------------------------------------------------------------
(* createBackup and copyFileOptimized (convert.go, lines 318-367), step by *)
(* step: the calls the function makes on the file system are the steps,    *)
(* each may fail, and the process may die between any two of them.         *)

\* the calls of createBackup in one run of the model
MaxBackups == 3

\* the bytes io.CopyBuffer moves in one read and write
ChunkSize == 2

\* the file that is backed up and the name of its backup
BackupSrc == APng
BackupDst == BackupPath(BackupSrc)

BackupPaths ==
    {BackupSrc, BackupDst} \cup {TmpPath(BackupDst, n) : n \in 1..MaxBackups}

\* no call of createBackup is in progress; last tells how the latest call
\* ended, tmp is the temporary file it created, failed that
\* copyFileOptimized is to return an error
NoBackup ==
    [pc |-> "idle", n |-> 0, tmp |-> Empty, failed |-> FALSE, last |-> "none"]

\* createBackup(path) is called: os.MkdirAll and os.Open (lines 319-335)
BeginBackup ==
    /\ bak.pc = "idle"
    /\ bak.n < MaxBackups
    /\ \E outcome \in {"ok", "mkdir", "open"} :
          bak' = IF outcome = "ok"
                 THEN [bak EXCEPT !.pc = "opened", !.n = @ + 1, !.tmp = Empty,
                                  !.failed = FALSE]
                 ELSE [bak EXCEPT !.n = @ + 1, !.tmp = Empty,
                                  !.failed = FALSE, !.last = "error"]
    /\ UNCHANGED <<fs, options, bufPool>>
    /\ UNCHANGED notBakVars

\* os.CreateTemp (lines 337-340)
CreateTemp ==
    /\ bak.pc = "opened"
    /\ \E outcome \in {"ok", "fail"} :
          IF outcome = "ok"
          THEN /\ fs' = [fs EXCEPT ![TmpPath(BackupDst, bak.n)] = Written(0)]
               /\ bak' = [bak EXCEPT !.pc = "temp",
                                     !.tmp = TmpPath(BackupDst, bak.n)]
          ELSE /\ fs' = fs
               /\ bak' = [bak EXCEPT !.pc = "idle", !.last = "error"]
    /\ UNCHANGED <<options, bufPool>>
    /\ UNCHANGED notBakVars

\* ic.bufPool.get() (lines 349 and 70-72): sync.Pool.Get hands out one of
\* the pointers that were put, or a new buffer; on a pointer to a slice the
\* type assertion to a slice panics. The panic leaves the function with err
\* nil, so that the deferred function does not remove the temporary file.
BufGet ==
    /\ bak.pc = "temp"
    /\ \E got \in IF bufPool > 0 THEN GetOutcomes ELSE {"new"} :
          IF got = "pointer"
          THEN /\ bak' = [bak EXCEPT !.pc = "idle", !.last = "panic"]
               /\ bufPool' = bufPool - 1
          ELSE /\ bak' = [bak EXCEPT !.pc = "copy"]
               /\ bufPool' = bufPool
    /\ UNCHANGED <<fs, options>>
    /\ UNCHANGED notBakVars

\* a step of the copy fails: the function is to return the error, and its
\* deferred functions run, the put first
BackupFail ==
    bak' = [bak EXCEPT !.pc = "put", !.failed = TRUE]

\* io.CopyBuffer (lines 352-354): one more chunk is written, or the copy
\* fails
CopyChunk ==
    /\ bak.pc = "copy"
    /\ \E outcome \in {"ok", "fail"} :
          IF outcome = "ok"
          THEN LET left == fs[BackupSrc].size - fs[bak.tmp].size
                   size == fs[bak.tmp].size
                               + (IF left < ChunkSize THEN left ELSE ChunkSize)
               IN /\ fs' = [fs EXCEPT ![bak.tmp] = Written(size)]
                  /\ bak' = [bak EXCEPT !.pc = IF size = fs[BackupSrc].size
                                               THEN "sync" ELSE "copy"]
          ELSE BackupFail /\ fs' = fs
    /\ UNCHANGED <<options, bufPool>>
    /\ UNCHANGED notBakVars

\* tmpFile.Sync (lines 355-357)
SyncTemp ==
    /\ bak.pc = "sync"
    /\ \E outcome \in {"ok", "fail"} :
          IF outcome = "ok"
          THEN bak' = [bak EXCEPT !.pc = "close"]
          ELSE BackupFail
    /\ UNCHANGED <<fs, options, bufPool>>
    /\ UNCHANGED notBakVars

\* tmpFile.Close (lines 358-360)
CloseTemp ==
    /\ bak.pc = "close"
    /\ \E outcome \in {"ok", "fail"} :
          IF outcome = "ok"
          THEN bak' = [bak EXCEPT !.pc = "rename"]
          ELSE BackupFail
    /\ UNCHANGED <<fs, options, bufPool>>
    /\ UNCHANGED notBakVars

\* os.Rename (line 361): the temporary file takes the final name in one
\* step, or stays
RenameTemp ==
    /\ bak.pc = "rename"
    /\ \E outcome \in {"ok", "fail"} :
          IF outcome = "ok"
          THEN /\ fs' = [fs EXCEPT ![BackupDst] = fs[bak.tmp],
                                   ![bak.tmp] = NoFile]
               /\ bak' = [bak EXCEPT !.pc = "put"]
          ELSE /\ fs' = fs
               /\ bak' = [bak EXCEPT !.pc = "unlink", !.failed = TRUE]
    /\ UNCHANGED <<options, bufPool>>
    /\ UNCHANGED notBakVars

\* os.Remove of the temporary file, whose error is not looked at: the file
\* is removed, or stays
RemoveTempFile ==
    \E outcome \in IF fs[bak.tmp].st = "file" THEN {"ok", "fail"} ELSE {"ok"} :
        fs' = IF outcome = "ok" THEN [fs EXCEPT ![bak.tmp] = NoFile] ELSE fs

\* line 362: os.Remove after a failed rename
UnlinkTemp ==
    /\ bak.pc = "unlink"
    /\ RemoveTempFile
    /\ bak' = [bak EXCEPT !.pc = "put"]
    /\ UNCHANGED <<options, bufPool>>
    /\ UNCHANGED notBakVars

\* the deferred put (lines 350 and 74-76) hands the buffer to the pool as a
\* pointer to the slice; after it a function that returns nil has returned
BackupReturn ==
    /\ bak.pc = "put"
    /\ bufPool' = Pooled(bufPool)
    /\ bak' = IF bak.failed THEN [bak EXCEPT !.pc = "cleanup"]
              ELSE [bak EXCEPT !.pc = "idle", !.last = "ok"]
    /\ UNCHANGED <<fs, options>>
    /\ UNCHANGED notBakVars

\* the function returns an error after the temporary file was created: the
\* deferred function closes and removes the temporary file (lines 342-347)
CleanupTemp ==
    /\ bak.pc = "cleanup"
    /\ RemoveTempFile
    /\ bak' = [bak EXCEPT !.pc = "idle", !.last = "error"]
    /\ UNCHANGED <<options, bufPool>>
    /\ UNCHANGED notBakVars

\* the process dies in the middle of the call; another process, with a new
\* converter, may make the next call
Crash ==
    /\ bak.pc # "idle"
    /\ bak' = [bak EXCEPT !.pc = "idle", !.last = "crash"]
    /\ bufPool' = 0
    /\ UNCHANGED <<fs, options>>
    /\ UNCHANGED notBakVars

\* a converter with Backup set, over a directory that holds the source and
\* no backup
BackupInit ==
    /\ fs = [p \in BackupPaths |->
                IF p = BackupSrc THEN File(SourceSize, 0) ELSE NoFile]
    /\ cache = EmptyCache
    /\ now = 0
    /\ options = [Quality |-> 0, MaxDimension |-> 0, KeepOriginal |-> TRUE,
                  DryRun |-> FALSE, Backup |-> TRUE]
    /\ lastCall = NoCall
    /\ firstRun = NoRun
    /\ bak = NoBackup
    /\ bufPool = 0

BackupNext ==
    \/ BeginBackup
    \/ CreateTemp
    \/ BufGet
    \/ CopyChunk
    \/ SyncTemp
    \/ CloseTemp
    \/ RenameTemp
    \/ UnlinkTemp
    \/ BackupReturn
    \/ CleanupTemp
    \/ Crash

\* no backup is made
BackupIdle ==
    /\ bak = NoBackup
    /\ bufPool = 0

-----------------------------------------------------------------------------
(* The session store (package resume) and the resumption of a run by the   *)
(* driver, as sections 3, 4.5 and 6 of the specification describe them.    *)
(* The state file is a JSON document (gopix_test.go, line 295); it is      *)
(* written to a temporary file that is then renamed to the state file.     *)

\* the runs the driver starts and the files of an input directory
MaxRuns == 3
MaxFiles == 2

\* strconv.ParseUint(s, 10, 64)
DigitValue(c) == CHOOSE v \in 0..9 : Digits[v + 1] = c
RECURSIVE ParseUint(_)
ParseUint(s) ==
    IF s = <<>> THEN 0
    ELSE ParseUint(SubSeq(s, 1, Len(s) - 1)) * 10 + DigitValue(s[Len(s)])

Quote == "\""
Backslash == "\\"

\* the bytes of the paths, in their order
CharOrder ==
    <<Quote, ".", "/">> \o Digits \o UpperChars \o <<Backslash, "_">>
        \o LowerChars
CharCode(c) == CHOOSE i \in DOMAIN CharOrder : CharOrder[i] = c

\* a < b for two strings, byte by byte
RECURSIVE LessFrom(_, _, _)
LessFrom(a, b, i) ==
    IF i > Len(b) THEN FALSE
    ELSE IF i > Len(a) THEN TRUE
    ELSE IF a[i] # b[i] THEN CharCode(a[i]) < CharCode(b[i])
    ELSE LessFrom(a, b, i + 1)
Less(a, b) == LessFrom(a, b, 1)

\* the strings of a set in ascending order
RECURSIVE SortPaths(_)
SortPaths(S) ==
    IF S = {} THEN <<>>
    ELSE LET m == CHOOSE x \in S : \A y \in S \ {x} : Less(x, y)
         IN <<m>> \o SortPaths(S \ {m})

\* a directory whose name has a quote and a backslash in it
QDir == <<"d", Quote, Backslash>>

\* the parameters of an invocation
SessionDirs == {In, QDir}
SessionFormats == {Jpg, Png}
SessionTotals == 1..MaxFiles

\* the files of a run, in the order of their paths
FileOf(inputDir, i) == inputDir \o <<"/">> \o FormatUint(i)
FilesOf(inputDir, totalFiles) == {FileOf(inputDir, i) : i \in 1..totalFiles}

\* a ConversionState: ProcessedFiles is the set of the marked files
ConversionState(sessionID, inputDir, targetFormat, totalFiles, processed) ==
    [SessionID |-> sessionID, InputDir |-> inputDir,
     TargetFormat |-> targetFormat, TotalFiles |-> totalFiles,
     ProcessedFiles |-> processed]

NoState == ConversionState(Empty, Empty, Empty, 0, {})

\* the names of the members of the document (section 6)
KeySessionID    == <<"s","e","s","s","i","o","n","I","D">>
KeyInputDir     == <<"i","n","p","u","t","D","i","r">>
KeyTargetFormat == <<"t","a","r","g","e","t","F","o","r","m","a","t">>
KeyTotalFiles   == <<"t","o","t","a","l","F","i","l","e","s">>
KeyProcessed    == <<"p","r","o","c","e","s","s","e","d">>
True            == <<"t","r","u","e">>

\* a writer of strings that escapes nothing
EscapeNone(s) == s

\* the bytes of a string as a JSON string holds them: a quote and a
\* backslash are written after a backslash
RECURSIVE Escape(_)
Escape(s) ==
    IF s = <<>> THEN <<>>
    ELSE (IF Head(s) \in {Quote, Backslash} THEN <<Backslash, Head(s)>>
          ELSE <<Head(s)>>) \o Escape(Tail(s))

Quoted(s) == <<Quote>> \o Escape(s) \o <<Quote>>
Member(key) == Quoted(key) \o <<":">>

\* the markers of the files, one member each, in the order of the paths
RECURSIVE Markers(_)
Markers(files) ==
    IF files = <<>> THEN <<>>
    ELSE Quoted(Head(files)) \o <<":">> \o True
         \o (IF Len(files) > 1 THEN <<",">> ELSE <<>>) \o Markers(Tail(files))

\* the document written for a state
Encode(state) ==
    <<"{">> \o Member(KeySessionID) \o Quoted(state.SessionID)
    \o <<",">> \o Member(KeyInputDir) \o Quoted(state.InputDir)
    \o <<",">> \o Member(KeyTargetFormat) \o Quoted(state.TargetFormat)
    \o <<",">> \o Member(KeyTotalFiles) \o FormatUint(state.TotalFiles)
    \o <<",">> \o Member(KeyProcessed)
    \o <<"{">> \o Markers(SortPaths(state.ProcessedFiles)) \o <<"}">>
    \o <<"}">>

\* the document has the literal at the index: the index after it, or 0
Lit(doc, i, lit) ==
    IF i > 0 /\ i + Len(lit) - 1 <= Len(doc)
             /\ SubSeq(doc, i, i + Len(lit) - 1) = lit
    THEN i + Len(lit) ELSE 0

\* a JSON string is read from the index: its value and the index after it,
\* 0 if there is no string
RECURSIVE StringBody(_, _, _)
StringBody(doc, i, acc) ==
    IF i > Len(doc) THEN [val |-> <<>>, next |-> 0]
    ELSE IF doc[i] = Quote THEN [val |-> acc, next |-> i + 1]
    ELSE IF doc[i] = Backslash
    THEN IF i + 1 > Len(doc) THEN [val |-> <<>>, next |-> 0]
         ELSE StringBody(doc, i + 2, Append(acc, doc[i + 1]))
    ELSE StringBody(doc, i + 1, Append(acc, doc[i]))
ParseString(doc, i) ==
    IF Lit(doc, i, <<Quote>>) = 0 THEN [val |-> <<>>, next |-> 0]
    ELSE StringBody(doc, i + 1, <<>>)

\* a number is read from the index
IsDigit(c) == \E v \in DOMAIN Digits : Digits[v] = c
RECURSIVE DigitsEnd(_, _)
DigitsEnd(doc, i) ==
    IF i = 0 \/ i > Len(doc) THEN i
    ELSE IF IsDigit(doc[i]) THEN DigitsEnd(doc, i + 1) ELSE i
ParseNumber(doc, i) ==
    LET e == DigitsEnd(doc, i) IN
    IF e > i THEN [val |-> ParseUint(SubSeq(doc, i, e - 1)), next |-> e]
    ELSE [val |-> 0, next |-> 0]

\* the markers are read from the index
RECURSIVE MarkersFrom(_, _, _)
MarkersFrom(doc, i, acc) ==
    LET k == ParseString(doc, i)
        t == Lit(doc, k.next, <<":">> \o True)
    IN IF t = 0 \/ t > Len(doc) THEN [val |-> {}, next |-> 0]
       ELSE IF doc[t] = "," THEN MarkersFrom(doc, t + 1, acc \cup {k.val})
       ELSE IF doc[t] = "}" THEN [val |-> acc \cup {k.val}, next |-> t + 1]
       ELSE [val |-> {}, next |-> 0]
ParseMarkers(doc, i) ==
    LET o == Lit(doc, i, <<"{">>) IN
    IF o = 0 \/ o > Len(doc) THEN [val |-> {}, next |-> 0]
    ELSE IF doc[o] = "}" THEN [val |-> {}, next |-> o + 1]
    ELSE MarkersFrom(doc, o, {})

\* the state read from a document, if it is one
Decode(doc) ==
    LET sid == ParseString(doc, Lit(doc, 1, <<"{">> \o Member(KeySessionID)))
        dir == ParseString(doc,
                   Lit(doc, sid.next, <<",">> \o Member(KeyInputDir)))
        fmt == ParseString(doc,
                   Lit(doc, dir.next, <<",">> \o Member(KeyTargetFormat)))
        tot == ParseNumber(doc,
                   Lit(doc, fmt.next, <<",">> \o Member(KeyTotalFiles)))
        pro == ParseMarkers(doc,
                   Lit(doc, tot.next, <<",">> \o Member(KeyProcessed)))
    IN IF Lit(doc, pro.next, <<"}">>) = Len(doc) + 1
       THEN [ok |-> TRUE,
             state |-> ConversionState(sid.val, dir.val, fmt.val, tot.val,
                                       pro.val)]
       ELSE [ok |-> FALSE, state |-> NoState]

\* a file of the state directory
Absent == [exists |-> FALSE, content |-> <<>>]
Stored(content) == [exists |-> TRUE, content |-> content]

\* neither the state file nor the temporary file is there
NoStateFile == [file |-> Absent, tmp |-> Absent]

\* the outcomes of the steps of SaveState and of ClearState
StoreOutcomes == {"ok", "fail"}

\* SaveState(state), first step: the document is written to the temporary
\* file; a write that fails leaves a part of it
WriteState(disk, state, outcome) ==
    LET doc == Encode(state) IN
    [disk EXCEPT !.tmp = Stored(IF outcome = "ok" THEN doc
                                ELSE SubSeq(doc, 1, Len(doc) \div 2))]

\* SaveState(state), second step: the temporary file is renamed to the
\* state file; a rename that fails leaves both as they are
RenameState(disk, outcome) ==
    IF outcome = "ok" THEN [file |-> disk.tmp, tmp |-> Absent] ELSE disk

\* what LoadState returns
NotFound == [found |-> FALSE, state |-> NoState, err |-> "not-found"]
Found(state) == [found |-> TRUE, state |-> state, err |-> "none"]

\* LoadState(): the state, or not-found, or the error of a file that is no
\* document
LoadState ==
    IF ~stateFile.file.exists THEN NotFound
    ELSE LET d == Decode(stateFile.file.content) IN
         IF d.ok THEN Found(d.state)
         ELSE [found |-> FALSE, state |-> NoState, err |-> "corrupt"]

\* ClearState(): the state file is removed
ClearState(disk, outcome) ==
    IF outcome = "ok" THEN [disk EXCEPT !.file = Absent] ELSE disk

\* the check of a stored state that leaves totalFiles out
ResumeAcceptedNoTotal(stored, inputDir, targetFormat, totalFiles) ==
    /\ stored.InputDir = inputDir
    /\ stored.TargetFormat = targetFormat

\* the stored state is of this invocation
ResumeAccepted(stored, inputDir, targetFormat, totalFiles) ==
    /\ stored.InputDir = inputDir
    /\ stored.TargetFormat = targetFormat
    /\ stored.TotalFiles = totalFiles

\* no run is in progress; runs counts the runs started. pc is the step of
\* SaveState the driver stands before, op what the last call of the store
\* came to, and saved the state of the last SaveState that returned no
\* error and was not cleared since
NoSession ==
    [phase |-> "idle", runs |-> 0, state |-> NoState, resumed |-> FALSE,
     skipped |-> {}, found |-> FALSE, stored |-> NoState,
     params |-> [inputDir |-> Empty, targetFormat |-> Empty, totalFiles |-> 0],
     pc |-> "none", op |-> "none", saved |-> NoState]

\* the driver starts a run: it loads the stored state, resumes from it if
\* it is of this invocation and otherwise begins a state of its own, and
\* goes on to save the state of the run. skipped holds the files the run
\* takes for processed at its start; found and stored record what LoadState
\* returned and params the parameters of the invocation
StartRun(inputDir, targetFormat, totalFiles) ==
    /\ session.phase = "idle"
    /\ session.runs < MaxRuns
    /\ LET loaded == LoadState
           accepted == /\ loaded.found
                       /\ ResumeAccepted(loaded.state, inputDir, targetFormat,
                                         totalFiles)
           state == IF accepted THEN loaded.state
                    ELSE ConversionState(FormatUint(session.runs + 1), inputDir,
                                         targetFormat, totalFiles, {})
       IN session' = [session EXCEPT
                         !.phase = "running", !.runs = @ + 1,
                         !.state = state, !.resumed = accepted,
                         !.skipped = state.ProcessedFiles,
                         !.found = loaded.found, !.stored = loaded.state,
                         !.params = [inputDir |-> inputDir,
                                     targetFormat |-> targetFormat,
                                     totalFiles |-> totalFiles],
                         !.pc = "write", !.op = "saving"]
    /\ UNCHANGED stateFile
    /\ UNCHANGED notSessVars

\* a job of the run is complete: the driver marks its file and goes on to
\* save the state
CompleteJob(file) ==
    /\ session.phase = "running"
    /\ session.pc = "none"
    /\ file \in FilesOf(session.state.InputDir, session.state.TotalFiles)
    /\ file \notin session.state.ProcessedFiles
    /\ session' = [session EXCEPT !.state.ProcessedFiles = @ \cup {file},
                                  !.pc = "write", !.op = "saving"]
    /\ UNCHANGED stateFile
    /\ UNCHANGED notSessVars

\* SaveState writes the temporary file; if the write fails it returns the
\* error, and the run goes on
SaveStateWrite ==
    /\ session.pc = "write"
    /\ \E outcome \in StoreOutcomes :
          /\ stateFile' = WriteState(stateFile, session.state, outcome)
          /\ session' = IF outcome = "ok"
                        THEN [session EXCEPT !.pc = "rename"]
                        ELSE [session EXCEPT !.pc = "none",
                                             !.op = "save-failed"]
    /\ UNCHANGED notSessVars

\* SaveState renames the temporary file and returns
SaveStateRename ==
    /\ session.pc = "rename"
    /\ \E outcome \in StoreOutcomes :
          /\ stateFile' = RenameState(stateFile, outcome)
          /\ session' = IF outcome = "ok"
                        THEN [session EXCEPT !.pc = "none", !.op = "saved",
                                             !.saved = session.state]
                        ELSE [session EXCEPT !.pc = "none",
                                             !.op = "save-failed"]
    /\ UNCHANGED notSessVars

\* the run is complete: the driver clears the state
FinishRun ==
    /\ session.phase = "running"
    /\ session.pc = "none"
    /\ session.state.ProcessedFiles =
          FilesOf(session.state.InputDir, session.state.TotalFiles)
    /\ \E outcome \in StoreOutcomes :
          /\ stateFile' = ClearState(stateFile, outcome)
          /\ session' = IF outcome = "ok"
                        THEN [session EXCEPT !.phase = "idle",
                                             !.state = NoState,
                                             !.op = "cleared",
                                             !.saved = NoState]
                        ELSE [session EXCEPT !.phase = "idle",
                                             !.state = NoState,
                                             !.op = "clear-failed"]
    /\ UNCHANGED notSessVars

\* the run is interrupted, within SaveState or between two calls: the files
\* stay on disk as they are
Interrupt ==
    /\ session.phase = "running"
    /\ session' = [session EXCEPT
                      !.phase = "idle", !.pc = "none",
                      !.op = IF session.pc = "none" THEN @ ELSE "interrupted"]
    /\ UNCHANGED stateFile
    /\ UNCHANGED notSessVars

SessInit ==
    /\ stateFile = NoStateFile
    /\ session = NoSession

SessNext ==
    \/ \E d \in SessionDirs, f \in SessionFormats, n \in SessionTotals :
          StartRun(d, f, n)
    \/ \E d \in SessionDirs, i \in 1..MaxFiles : CompleteJob(FileOf(d, i))
    \/ SaveStateWrite
    \/ SaveStateRename
    \/ FinishRun
    \/ Interrupt

\* no session is kept
SessIdle ==
    /\ stateFile = NoStateFile
    /\ session = NoSession

-----------------------------------------------------------------------------
(* The rate limiter (section 4.2 of the specification): the token bucket   *)
(* of golang.org/x/time/rate, the module's direct requirement. Time is     *)
(* counted in the intervals in which one token accrues. Wait() takes its   *)
(* token at once, out of an empty bucket too: the count goes below zero    *)
(* and the caller sleeps for as many intervals as the count is short. No   *)
(* token is handed from one caller to another.                             *)

\* the workers that call Wait() and the highest rate limit
NumWaiters == 3
MaxRate == 2

Waiters == 1..NumWaiters

\* the tokens the bucket holds at most
Burst == rateLimit

\* the intervals a caller sleeps that leaves the bucket with t tokens
DelayFrom(t) == IF t < 0 THEN -t ELSE 0

\* the sleep of the worker ends only when a token lies in the bucket
DueWithToken(w) == delay[w] = 0 /\ tokens > 0

\* the sleep of the worker has come to its end
Due(w) == delay[w] = 0

\* NewRateLimiter(rateLimit): the bucket is full
NewRateLimiter ==
    /\ rateLimit \in 0..MaxRate
    /\ tokens = Burst
    /\ lim = [w \in Waiters |-> "idle"]
    /\ delay = [w \in Waiters |-> 0]

\* an interval passes: a token accrues unless the bucket is full, and every
\* sleeper is an interval nearer to its end
Refill ==
    /\ rateLimit > 0
    /\ tokens < Burst
    /\ tokens' = tokens + 1
    /\ delay' = [w \in Waiters |-> IF delay[w] > 0 THEN delay[w] - 1 ELSE 0]
    /\ UNCHANGED <<rateLimit, lim>>
    /\ UNCHANGED notLimVars

\* a worker calls Wait(): without limit the call returns; otherwise it
\* takes a token, and returns if the bucket held one, or sleeps until the
\* token it took has accrued
WaitCall(w) ==
    /\ lim[w] = "idle"
    /\ IF rateLimit = 0
       THEN /\ lim' = [lim EXCEPT ![w] = "passed"]
            /\ UNCHANGED <<tokens, delay>>
       ELSE /\ tokens' = tokens - 1
            /\ delay' = [delay EXCEPT ![w] = DelayFrom(tokens - 1)]
            /\ lim' = [lim EXCEPT ![w] =
                          IF tokens > 0 THEN "passed" ELSE "blocked"]
    /\ UNCHANGED rateLimit
    /\ UNCHANGED notLimVars

\* the sleep of a blocked worker ends: its Wait() returns
Wake(w) ==
    /\ lim[w] = "blocked"
    /\ Due(w)
    /\ lim' = [lim EXCEPT ![w] = "passed"]
    /\ UNCHANGED <<rateLimit, tokens, delay>>
    /\ UNCHANGED notLimVars

\* the worker does its job and comes back for the next
Proceed(w) ==
    /\ lim[w] = "passed"
    /\ lim' = [lim EXCEPT ![w] = "idle"]
    /\ UNCHANGED <<rateLimit, tokens, delay>>
    /\ UNCHANGED notLimVars

LimNext ==
    \/ Refill
    \/ \E w \in Waiters : WaitCall(w)
    \/ \E w \in Waiters : Wake(w)
    \/ \E w \in Waiters : Proceed(w)

\* no rate limiter is in use
LimIdle ==
    /\ rateLimit = 0
    /\ tokens = 0
    /\ lim = <<>>
    /\ delay = <<>>

-----------------------------------------------------------------------------
(* The converter called with explicit output paths: ConvertWithOutputPath  *)
(* on one source and one format, the output asked for at either of two     *)
(* paths or beside the source.                                             *)

QJpg == <<"q",".","j","p","g">>

OutputRequests ==
    {Request(APng, Jpg, OJpg), Request(APng, Jpg, QJpg),
     Request(APng, Jpg, Empty)}
OutputPaths ==
    {NewPathOf(r.path, ToLower(r.format), r.outputPath) : r \in OutputRequests}

\* the state after NewImageConverter(options) with KeepOriginal set, over a
\* directory that holds the source and no output
OutputPathInit ==
    /\ fs = [p \in {APng, BackupPath(APng)} \cup OutputPaths |->
                IF p = APng THEN File(SourceSize, 0) ELSE NoFile]
    /\ cache = EmptyCache
    /\ now = 0
    /\ options = [Quality |-> 1, MaxDimension |-> 23, KeepOriginal |-> TRUE,
                  DryRun |-> FALSE, Backup |-> FALSE]
    /\ lastCall = NoCall
    /\ firstRun = NoRun

OutputPathNext ==
    \/ \E r \in OutputRequests :
          ConvertWithOutputPath(r.path, r.format, r.outputPath)
    \/ ConvertProceed
    \/ \E p \in OutputPaths : EnvRemove(p)
    \/ \E p \in OutputPaths : EnvCreate(p)

-----------------------------------------------------------------------------
(* The batch processor (package batch: CollectFiles and GetOutputPath), as *)
(* section 4.1 of the specification describes it. A tree has regular       *)
(* files, directories (a directory is there when a file or a link lies     *)
(* under it, or when it is listed empty) and symbolic links to             *)
(* directories.                                                            *)

\* a tree holds at most MaxTreeFiles files
MaxTreeFiles == 4

Root  == <<"r">>
Other == <<"q">>
SubS  == <<"s">>
SubT  == <<"t">>
SubE  == <<"e">>
LinkL == <<"l">>
LinkU == <<"u">>
SPng  == <<"s",".","p","n","g">>
BTxt  == <<"b",".","t","x","t">>
CJpg  == <<"c",".","j","p","g">>
Webp  == <<"w","e","b","p">>
OutDir == <<"o">>
OutSub == <<"o","/","x">>

\* the files a tree is made of: at the top of the root, beside a directory
\* of nearly the same name, nested once and twice, of an extension that is
\* not asked for, and outside the root
TreeFiles ==
    {JoinElements(<<Root, APng>>), JoinElements(<<Root, SPng>>),
     JoinElements(<<Root, BTxt>>), JoinElements(<<Root, SubS, CJpg>>),
     JoinElements(<<Root, SubS, SubT, APng>>),
     JoinElements(<<Other, APng>>)}

\* the links of a tree: to a directory beside it, from a subdirectory up to
\* the root, and to a directory outside the root
SymLink(path, target) == [path |-> path, target |-> target]
TreeLinks ==
    {SymLink(JoinElements(<<Root, LinkL>>), JoinElements(<<Root, SubS>>)),
     SymLink(JoinElements(<<Root, SubS, LinkU>>), Root),
     SymLink(JoinElements(<<Root, LinkL>>), Other)}

\* a tree: its files, its empty directories and its links
Tree(files, dirs, links) == [files |-> files, dirs |-> dirs, links |-> links]
NoTree == Tree({}, {}, {})
Trees ==
    {Tree(f, d, l) :
        f \in {t \in SUBSET TreeFiles : Cardinality(t) <= MaxTreeFiles},
        d \in {{}, {JoinElements(<<Root, SubE>>)}},
        l \in {{}} \cup {{k} : k \in TreeLinks}}
AllowedLists == {<<Png>>, <<Png, Jpg>>}

\* the directories a path lies under, at any depth
RECURSIVE Ancestors(_)
Ancestors(path) ==
    LET d == Dir(path) IN
    IF d = <<".">> \/ d = path THEN {} ELSE {d} \cup Ancestors(d)

\* the directories of a tree: the root, the empty directories and those a
\* file, a link or a directory lies under
Directories(tree) ==
    {Root} \cup tree.dirs
    \cup UNION {Ancestors(p) :
                   p \in tree.files \cup tree.dirs
                            \cup {l.path : l \in tree.links}}

\* the entries of a directory: its files, its subdirectories and its links,
\* each with its name and with the file or the directory it stands for
Entry(name, kind, target) == [name |-> name, kind |-> kind, target |-> target]
Entries(tree, dir) ==
    {Entry(Base(f), "file", f) : f \in {x \in tree.files : Dir(x) = dir}}
    \cup {Entry(Base(d), "dir", d) :
             d \in {x \in Directories(tree) : x # dir /\ Dir(x) = dir}}
    \cup {Entry(Base(l.path), "link", l.target) :
             l \in {x \in tree.links : Dir(x.path) = dir}}

\* the orders in which a directory may list its entries: by name, ascending
\* or descending
Listings == {"ascending", "descending"}
Reverse(q) == [i \in 1..Len(q) |-> q[Len(q) + 1 - i]]
List(tree, dir, listing) ==
    LET entries == Entries(tree, dir)
        names == SortPaths({e.name : e \in entries})
        listed == [i \in 1..Len(names) |->
                      CHOOSE e \in entries : e.name = names[i]]
    IN IF listing = "ascending" THEN listed ELSE Reverse(listed)

\* the subdirectories of a directory depth levels below the root are read:
\* the search is recursive, and the depth is unlimited or they lie at most
\* MaxDepth levels below the root
GoesDown(cfg, depth) ==
    /\ cfg.RecursiveSearch
    /\ cfg.MaxDepth = 0 \/ depth + 1 <= cfg.MaxDepth

\* the entry is read as a directory: a directory, or a link to a directory
\* when links are followed
IsDirectory(tree, cfg, e) ==
    \/ e.kind = "dir"
    \/ e.kind = "link" /\ cfg.FollowSymlinks /\ e.target \in Directories(tree)

\* the walk: w holds the paths found so far and the directories visited, by
\* the paths they have with every link resolved. WalkDir reads the directory
\* that has the path at and is the directory dir of the tree; a directory
\* visited before is passed over, and so is an empty one when these are
\* skipped. WalkEntries goes through the entries listed: a file is found
\* under the path it is reached by, a directory is read in its turn
RECURSIVE WalkDir(_, _, _, _, _, _, _), WalkEntries(_, _, _, _, _, _, _)
WalkDir(tree, cfg, at, dir, depth, listing, w) ==
    IF dir \in w.visited THEN w
    ELSE IF cfg.SkipEmptyDirs /\ Entries(tree, dir) = {} THEN w
    ELSE WalkEntries(tree, cfg, at, depth, listing, List(tree, dir, listing),
                     [w EXCEPT !.visited = @ \cup {dir}])
WalkEntries(tree, cfg, at, depth, listing, entries, w) ==
    IF entries = <<>> THEN w
    ELSE LET e == Head(entries)
             path == at \o <<"/">> \o e.name
             next ==
                 IF e.kind = "file"
                 THEN [w EXCEPT !.files = Append(@, path)]
                 ELSE IF IsDirectory(tree, cfg, e) /\ GoesDown(cfg, depth)
                 THEN WalkDir(tree, cfg, path, e.target, depth + 1, listing, w)
                 ELSE w
         IN WalkEntries(tree, cfg, at, depth, listing, Tail(entries), next)
Walk(tree, cfg, root, listing) ==
    WalkDir(tree, cfg, root, root, 0, listing,
            [files |-> <<>>, visited |-> {}]).files

\* the extension of the file is one of the list
HasAllowedExtension(file, allowedExtensions) ==
    \E i \in DOMAIN allowedExtensions :
        Ext(file) = <<".">> \o allowedExtensions[i]

\* sort.Strings
RECURSIVE Insert(_, _)
Insert(x, sorted) ==
    IF sorted = <<>> THEN <<x>>
    ELSE IF Less(x, Head(sorted)) THEN <<x>> \o sorted
    ELSE <<Head(sorted)>> \o Insert(x, Tail(sorted))
RECURSIVE SortStrings(_)
SortStrings(q) ==
    IF q = <<>> THEN <<>> ELSE Insert(Head(q), SortStrings(Tail(q)))

\* CollectFiles that returns the paths in the order the walk found them
CollectFilesNoSort(tree, cfg, root, allowedExtensions, listing) ==
    SelectSeq(Walk(tree, cfg, root, listing),
              LAMBDA f : HasAllowedExtension(f, allowedExtensions))

\* BatchProcessor.CollectFiles, over a tree whose directories list their
\* entries in the order given
CollectFiles(tree, cfg, root, allowedExtensions, listing) ==
    SortStrings(SelectSeq(Walk(tree, cfg, root, listing),
                          LAMBDA f : HasAllowedExtension(f, allowedExtensions)))

\* filepath.Join of two paths
Join(a, b) ==
    IF a = <<>> THEN Clean(b)
    ELSE IF b = <<>> THEN Clean(a)
    ELSE Clean(a \o <<"/">> \o b)

\* filepath.Rel, of a target under the base
Rel(base, target) ==
    LET b == Clean(base)
        t == Clean(target)
    IN IF t = b THEN <<".">>
       ELSE IF Len(t) > Len(b) + 1 /\ SubSeq(t, 1, Len(b) + 1) = b \o <<"/">>
            THEN SubSeq(t, Len(b) + 2, Len(t))
            ELSE t

\* the path with its extension replaced by the format
ReplaceExt(path, format) == TrimSuffix(path, Ext(path)) \o <<".">> \o format

\* GetOutputPath that mirrors the relative path whatever the configuration
GetOutputPathMirror(cfg, root, file, format) ==
    IF cfg.OutputDir # Empty
    THEN Join(cfg.OutputDir, ReplaceExt(Rel(root, file), format))
    ELSE ReplaceExt(file, format)

\* BatchProcessor.GetOutputPath
GetOutputPath(cfg, root, file, format) ==
    IF cfg.OutputDir # Empty
    THEN IF cfg.PreserveStructure
         THEN Join(cfg.OutputDir, ReplaceExt(Rel(root, file), format))
         ELSE Join(cfg.OutputDir, ReplaceExt(Base(file), format))
    ELSE ReplaceExt(file, format)

\* the depths the search is limited to: 0 is no limit
DepthLimits == {0, 1, 2}

\* config.BatchConfig (batch_processing of the configuration file)
BatchConfigs ==
    [RecursiveSearch : BOOLEAN, MaxDepth : DepthLimits,
     PreserveStructure : BOOLEAN, OutputDir : {Empty, OutDir, OutSub},
     SkipEmptyDirs : BOOLEAN, FollowSymlinks : BOOLEAN]

\* no call is made; runs counts the calls of CollectFiles made over the
\* tree, files is what the first returned and again what the second did
NoBatchCall ==
    [fn |-> "none", tree |-> NoTree,
     cfg |-> [RecursiveSearch |-> FALSE, MaxDepth |-> 0,
              PreserveStructure |-> FALSE, OutputDir |-> Empty,
              SkipEmptyDirs |-> FALSE, FollowSymlinks |-> FALSE],
     root |-> Empty, allowed |-> <<>>, file |-> Empty, format |-> Empty,
     done |-> FALSE, files |-> <<>>, path |-> Empty, runs |-> 0,
     again |-> <<>>]

\* the calls to be made, with their arguments
CollectFilesCalls ==
    {[NoBatchCall EXCEPT !.fn = "CollectFiles", !.tree = t, !.cfg = c,
                         !.root = Root, !.allowed = l] :
        t \in Trees, l \in AllowedLists,
        c \in {b \in BatchConfigs : ~b.PreserveStructure /\ b.OutputDir = Empty}}
GetOutputPathCalls ==
    {[NoBatchCall EXCEPT !.fn = "GetOutputPath", !.cfg = c, !.root = Root,
                         !.file = f, !.format = Webp] :
        c \in {b \in BatchConfigs :
                  /\ b.RecursiveSearch /\ b.MaxDepth = 0
                  /\ ~b.SkipEmptyDirs /\ ~b.FollowSymlinks},
        f \in {x \in TreeFiles : Root \in Ancestors(x)}}

\* a call of CollectFiles returns: the first over the tree, or a second one
\* over the tree as it was
CallCollectFiles ==
    /\ batch.fn = "CollectFiles"
    /\ batch.runs < 2
    /\ \E listing \in Listings :
          LET files == CollectFiles(batch.tree, batch.cfg, batch.root,
                                    batch.allowed, listing)
          IN batch' = IF batch.runs = 0
                      THEN [batch EXCEPT !.done = TRUE, !.runs = 1,
                                         !.files = files]
                      ELSE [batch EXCEPT !.runs = 2, !.again = files]
    /\ UNCHANGED notBatchVars

\* the call of GetOutputPath returns
CallGetOutputPath ==
    /\ batch.fn = "GetOutputPath"
    /\ ~batch.done
    /\ batch' = [batch EXCEPT
                    !.done = TRUE,
                    !.path = GetOutputPath(batch.cfg, batch.root, batch.file,
                                           batch.format)]
    /\ UNCHANGED notBatchVars

BatchInit == batch \in CollectFilesCalls \cup GetOutputPathCalls

BatchNext ==
    \/ CallCollectFiles
    \/ CallGetOutputPath

\* no call of the batch processor is made
BatchIdle == batch = NoBatchCall

-----------------------------------------------------------------------------
(* The downscaling of convertImage (convert.go, lines 188-206). A scale is *)
(* the quotient of two integers, [num, den]: the float64 quotient of two   *)
(* integers below 2^16 is below 1.0 exactly when num < den.                *)

\* the sides of an image run from 1 to MaxSide, MaxDimension from 0 to
\* MaxSide + 1
MaxSide == 5

One == [num |-> 1, den |-> 1]
Quotient(a, b) == [num |-> a, den |-> b]
BelowOne(scale) == scale.num < scale.den

\* lines 190-200 with the width taken whatever the orientation
ScaleOfWidth(width, height, maxDimension) ==
    IF width > maxDimension THEN Quotient(maxDimension, width) ELSE One

\* lines 190-200: the scale computed from the sides of the image
ScaleOf(width, height, maxDimension) ==
    IF width > height
    THEN IF width > maxDimension THEN Quotient(maxDimension, width) ELSE One
    ELSE IF height > maxDimension THEN Quotient(maxDimension, height) ELSE One

\* called: img.Resize was called, with the one scale for both sides;
\* resized: it returned no error; err: the error convertImage returns at
\* line 203 when it did. The sides of the image after a resize are the
\* image library's, which is not a part of the repository.
NoResize ==
    [width |-> 0, height |-> 0, maxDimension |-> 0, done |-> FALSE,
     called |-> FALSE, resized |-> FALSE, scale |-> One, err |-> Nil]

\* the images convertImage is called on, under the settings of the converter
ResizeCalls ==
    {[NoResize EXCEPT !.width = w, !.height = h, !.maxDimension = m] :
        w \in 1..MaxSide, h \in 1..MaxSide, m \in 0..(MaxSide + 1)}

\* lines 188-206: img.Resize is called if the scale is below 1.0, and
\* returns nil or an error, with which convertImage returns
ResizeImage ==
    /\ resize.width > 0
    /\ ~resize.done
    /\ LET scale == IF resize.maxDimension > 0
                    THEN ScaleOf(resize.width, resize.height,
                                 resize.maxDimension)
                    ELSE One
           called == resize.maxDimension > 0 /\ BelowOne(scale)
       IN \E outcome \in IF called THEN {"ok", "resize"} ELSE {"ok"} :
             resize' = [resize EXCEPT
                           !.done = TRUE,
                           !.called = called,
                           !.resized = called /\ outcome = "ok",
                           !.scale = scale,
                           !.err = IF outcome = "ok" THEN Nil
                                   ELSE NewError("failed to resize image")]
    /\ UNCHANGED notResizeVars

ResizeInit == resize \in ResizeCalls

ResizeNext == ResizeImage

\* no image is at hand
ResizeIdle == resize = NoResize

-----------------------------------------------------------------------------
(* Several workers in ConvertWithOutputPath at once, on one converter      *)
(* (convert.go, lines 93-179 and 318-367): each call goes from one access  *)
(* of the file system, of the cache (a sync.Map) or of the buffer pool (a  *)
(* sync.Pool) to the next, and the calls are interleaved in any order.     *)

DPng == <<"d",".","p","n","g">>

\* the jobs of the workers: distinct sources, distinct outputs
CallRequests == <<Request(APng, Jpg, Empty), Request(DPng, JpgUpper, Empty)>>
CallJobs == DOMAIN CallRequests

\* the call of a job
CallOf(j) ==
    NewCall(CallRequests[j].path, CallRequests[j].format,
            CallRequests[j].outputPath)

CallPaths ==
    UNION {{CallRequests[j].path,
            NewPathOf(CallRequests[j].path, ToLower(CallRequests[j].format),
                      CallRequests[j].outputPath),
            BackupPath(CallRequests[j].path)}
           \cup TmpPaths(CallRequests[j].path) : j \in CallJobs}

\* a worker takes its call one step further
WorkerStep(j) ==
    /\ ~Ended(calls.c[j])
    /\ \E ch \in StepChoices(Shared(fs, cache, bufPool), calls.c[j]) :
          LET n == CallStep(Shared(fs, cache, bufPool),
                            [calls.c[j] EXCEPT !.ch = ch])
          IN /\ fs' = n.sh.fs
             /\ cache' = n.sh.cache
             /\ bufPool' = n.sh.pool
             /\ calls' = [calls EXCEPT !.c[j] = n.c]
    /\ UNCHANGED notCallVars

\* the calls of the jobs run one after the other, in the given order
RECURSIVE RunSerial(_, _, _)
RunSerial(sh, order, done) ==
    IF order = <<>> THEN [sh |-> sh, c |-> done]
    ELSE LET j == Head(order)
             n == RunCall(sh, [CallOf(j) EXCEPT !.ch = calls.c[j].ch])
         IN RunSerial(n.sh, Tail(order),
                      [k \in DOMAIN done \cup {j} |->
                          IF k = j THEN n.c ELSE done[k]])

\* what a job was before the calls: never converted; never converted, but
\* with a file at its output path; converted by this converter; converted
\* by this converter, and the output deleted since
Priors == {"fresh", "output", "converted", "deleted"}

CallOutput(j) ==
    NewPathOf(CallRequests[j].path, ToLower(CallRequests[j].format),
              CallRequests[j].outputPath)
CallKey(j) == getCacheKey(CallRequests[j].path, ToLower(CallRequests[j].format))

NoCalls == [start |-> Shared(<<>>, <<>>, 0), c |-> <<>>]

CallsInit ==
    /\ now = 0
    /\ options \in {[Quality |-> 1, MaxDimension |-> 23, KeepOriginal |-> k,
                     DryRun |-> d, Backup |-> b] :
                        k \in BOOLEAN, d \in BOOLEAN, b \in BOOLEAN}
    /\ options.DryRun => (options.KeepOriginal /\ ~options.Backup)
    /\ bufPool \in 0..MaxPooled
    /\ ~options.Backup => bufPool = 0
    /\ \E prior \in [CallJobs -> Priors] :
          /\ fs = [p \in CallPaths |->
                      IF \E j \in CallJobs : p = CallRequests[j].path
                      THEN File(SourceSize, 0)
                      ELSE IF \E j \in CallJobs :
                                 p = CallOutput(j) /\ prior[j] = "output"
                      THEN Written(ForeignSize)
                      ELSE IF \E j \in CallJobs :
                                 p = CallOutput(j) /\ prior[j] = "converted"
                      THEN Written(MinCodecSize)
                      ELSE NoFile]
          /\ cache = [k \in {CallKey(j) :
                              j \in {i \in CallJobs :
                                        prior[i] \in {"converted", "deleted"}}} |->
                         LET j == CHOOSE i \in CallJobs : CallKey(i) = k IN
                         [outputPath |-> CallOutput(j),
                          outputSize |-> MinCodecSize, lastModified |-> 0,
                          configHash |-> getConfigHash]]
    /\ calls = [start |-> Shared(fs, cache, bufPool),
                c |-> [j \in CallJobs |-> CallOf(j)]]
    /\ lastCall = NoCall
    /\ firstRun = NoRun
    /\ bak = NoBackup

CallsNext == \E j \in CallJobs : WorkerStep(j)

\* no call is in progress
CallsIdle == calls = NoCalls

-----------------------------------------------------------------------------
(* The specifications: of the converter, of the worker pool, of the        *)
(* statistics, of the validator, of the backup copy, of the session store  *)
(* and of the rate limiter.                                                *)

\* the components added to the converter and the pool stand idle
OthersIdle == BatchIdle /\ ResizeIdle /\ CallsIdle

Init ==
    /\ ConvInit
    /\ PoolIdle /\ StatsIdle /\ ValIdle /\ BackupIdle /\ SessIdle /\ LimIdle
    /\ OthersIdle

Next == ConvNext

Spec == Init /\ [][Next]_vars

PoolInit ==
    /\ ConvIdle
    /\ NewWorkerPool
    /\ StatsIdle /\ ValIdle /\ BackupIdle /\ SessIdle /\ LimIdle
    /\ OthersIdle

SpecPool == PoolInit /\ [][PoolNext]_vars

\* the converter whose results the statistics count: Backup set,
\* KeepOriginal and DryRun unset
StatsConverter ==
    /\ ConvInit
    /\ options.Quality = 1
    /\ options.Backup /\ ~options.KeepOriginal /\ ~options.DryRun

SpecStatsInit ==
    /\ StatsConverter
    /\ StatsInit
    /\ PoolIdle /\ ValIdle /\ BackupIdle /\ SessIdle /\ LimIdle
    /\ OthersIdle

SpecStats == SpecStatsInit /\ [][StatsNext]_vars

SpecValidatorInit ==
    /\ ConvIdle
    /\ ValInit
    /\ PoolIdle /\ StatsIdle /\ BackupIdle /\ SessIdle /\ LimIdle
    /\ OthersIdle

SpecValidator == SpecValidatorInit /\ [][ValNext]_vars

SpecBackupInit ==
    /\ BackupInit
    /\ PoolIdle /\ StatsIdle /\ ValIdle /\ SessIdle /\ LimIdle
    /\ OthersIdle

SpecBackup == SpecBackupInit /\ [][BackupNext]_vars

SpecSessionInit ==
    /\ ConvIdle
    /\ SessInit
    /\ PoolIdle /\ StatsIdle /\ ValIdle /\ BackupIdle /\ LimIdle
    /\ OthersIdle

SpecSession == SpecSessionInit /\ [][SessNext]_vars

SpecLimiterInit ==
    /\ ConvIdle
    /\ NewRateLimiter
    /\ PoolIdle /\ StatsIdle /\ ValIdle /\ BackupIdle /\ SessIdle
    /\ OthersIdle

\* time passes, so that the bucket keeps being replenished, and a worker
\* whose sleep has come to its end wakes
SpecLimiter ==
    /\ SpecLimiterInit
    /\ [][LimNext]_vars
    /\ WF_vars(Refill)
    /\ \A w \in Waiters : WF_vars(Wake(w))

SpecBatchInit ==
    /\ ConvIdle
    /\ BatchInit
    /\ PoolIdle /\ StatsIdle /\ ValIdle /\ BackupIdle /\ SessIdle /\ LimIdle
    /\ ResizeIdle /\ CallsIdle

SpecBatch == SpecBatchInit /\ [][BatchNext]_vars

SpecResizeInit ==
    /\ ConvIdle
    /\ ResizeInit
    /\ PoolIdle /\ StatsIdle /\ ValIdle /\ BackupIdle /\ SessIdle /\ LimIdle
    /\ BatchIdle /\ CallsIdle

SpecResize == SpecResizeInit /\ [][ResizeNext]_vars

SpecCallsInit ==
    /\ CallsInit
    /\ PoolIdle /\ StatsIdle /\ ValIdle /\ SessIdle /\ LimIdle
    /\ BatchIdle /\ ResizeIdle

SpecCalls == SpecCallsInit /\ [][CallsNext]_vars

SpecOutputPathInit ==
    /\ OutputPathInit
    /\ PoolIdle /\ StatsIdle /\ ValIdle /\ BackupIdle /\ SessIdle /\ LimIdle
    /\ OthersIdle

SpecOutputPath == SpecOutputPathInit /\ [][OutputPathNext]_vars

\* the pool with its goroutines scheduled: a worker that can take a step
\* takes it (every conversion ends), the consumer keeps receiving, and a
\* call of AddJob or Stop that can return does return
SpecPoolFair ==
    /\ PoolInit
    /\ [][PoolNext]_vars
    /\ WF_vars(AddJobReturn)
    /\ WF_vars(StopReturn)
    /\ WF_vars(Receive)
    /\ \A w \in Workers :
          /\ WF_vars(Dequeue(w))
          /\ WF_vars(WorkerExit(w))
          /\ WF_vars(RateLimiterWait(w))
          /\ WF_vars(WorkerConvert(w))
          /\ WF_vars(Publish(w))
          /\ WF_vars(WorkerLoop(w))

-----------------------------------------------------------------------------
(* Properties of the worker pool, under SpecPool.                          *)

Range(q) == {q[i] : i \in DOMAIN q}

\* the job has been placed by an AddJob call that returned
Placed(j) == j \notin Range(todo) /\ adding # j

\* how often the job is in the queue, with a worker that has not published
\* its result yet, and on the result stream or with the consumer
InQueue(j) == Cardinality({i \in DOMAIN jobs : jobs[i] = j})
InFlight(j) ==
    Cardinality({w \in Workers :
        /\ wk[w].job = j
        /\ wk[w].pc \in {"wait", "convert"}})
Unpublished(j) ==
    Cardinality({<<w, i>> \in Workers \X (1..2) :
        /\ wk[w].pc = "publish"
        /\ i \in DOMAIN wk[w].out
        /\ wk[w].out[i].job = j})
OnStream(j) == Cardinality({i \in DOMAIN results : results[i].job = j})
Received(j) ==
    LET rs == {r \in BagToSet(consumed) : r.job = j} IN
    IF rs = {} THEN 0
    ELSE BagCardinality([r \in rs |-> consumed[r]])
ResultsOf(j) == OnStream(j) + Received(j)

\* every result there is
AllResults == Range(results) \cup BagToSet(consumed)

\* C1: every job placed by AddJob is, at any moment, in exactly one place:
\* in the queue, with a worker, or turned into exactly one result (on the
\* stream or received); no job ever has two results; once Stop has returned
\* every placed job has its one result, so that as many results are
\* delivered as jobs were submitted; and the result of a job whose
\* processing panicked bears an error.
C1_ExactlyOneResultPerJob ==
    /\ \A j \in JobIds :
          /\ ResultsOf(j) <= 1
          /\ Placed(j) =>
                InQueue(j) + InFlight(j) + Unpublished(j) + ResultsOf(j) = 1
          /\ ~Placed(j) =>
                InQueue(j) + InFlight(j) + Unpublished(j) + ResultsOf(j) = 0
          /\ (driver = "stopped" /\ Placed(j)) => ResultsOf(j) = 1
    /\ driver = "stopped" =>
          Len(results) + BagCardinality(consumed)
             = Cardinality({j \in JobIds : Placed(j)})
    /\ \A r \in AllResults : r.recovered => r.err

\* all jobs were submitted, Stop has returned and the consumer has received
\* one result for each, one of them from a recovered panic and another from
\* a conversion that went well
C1_Witness ==
    /\ driver = "stopped"
    /\ results = <<>>
    /\ BagCardinality(consumed) = NumJobs
    /\ \E r \in BagToSet(consumed) : r.recovered
    /\ \E r \in BagToSet(consumed) : ~r.err

\* C2: once Stop has returned, the queue is empty, no worker holds a job and
\* every placed job has its result on the stream or with the consumer; the
\* result stream is closed only when all workers have finished; and no
\* result is ever published on the closed stream.
C2_StopWaitsForResults ==
    /\ driver = "stopped" =>
          /\ jobs = <<>>
          /\ \A w \in Workers : wk[w].pc = "done" /\ wk[w].out = <<>>
          /\ \A j \in JobIds : Placed(j) => ResultsOf(j) = 1
    /\ resClosed => \A w \in Workers : wk[w].pc = "done"
    /\ resClosed <=> driver = "stopped"
    /\ ~sentLate

\* Stop has returned while a result was still on the stream, after the
\* workers handled all the jobs
C2_Witness ==
    /\ driver = "stopped"
    /\ resClosed
    /\ Len(results) = 1
    /\ todo = <<>>
    /\ BagCardinality(consumed) = NumJobs - 1

\* C3: the job queue never holds more than its capacity; an AddJob call
\* that finds the queue full stays blocked, holding its job, as long as the
\* queue is full; and the call returns only by putting that very job at the
\* end of the queue.
C3_BoundedQueueBlocks ==
    /\ [](Len(jobs) <= QueueCap)
    /\ [](driver = "addjob" => adding \in JobIds)
    /\ [][(driver = "addjob" /\ Len(jobs) >= QueueCap)
             => (driver' = "addjob" /\ adding' = adding)]_vars
    /\ [][(driver = "addjob" /\ driver' # "addjob")
             => jobs' = Append(jobs, adding)]_vars

\* an AddJob call is blocked on the full queue while other jobs wait to be
\* submitted
C3_Witness ==
    /\ driver = "addjob"
    /\ Len(jobs) = QueueCap
    /\ todo # <<>>

-----------------------------------------------------------------------------
(* Properties of the converter, under Spec.                                *)

\* the step is the return of a call of ConvertWithOutputPath
ConvertStep == lastCall'.ret # "none"

\* the step is a step of the call: the call is made, or it goes on
CallerStep ==
    /\ lastCall'.pc # "idle"
    /\ (lastCall'.pc # lastCall.pc \/ Ended(lastCall))

\* no other program has changed a file while the call ran
Undisturbed == ~lastCall'.disturbed

\* the extension of the path denotes the format: compared without regard to
\* case, jpg and jpeg being one format
DenotesFormat(path, format) ==
    LET dot == Ext(path)
        e == ToLower(SubSeq(dot, 2, Len(dot)))
        f == ToLower(format)
    IN \/ e = f
       \/ {e, f} = {Jpg, Jpeg}

\* the call follows a run that converted the same file to the same format
\* and output path and kept the source, whose modification time is as it
\* was when the call was made; no other program changed a file during the
\* run or during the call
SecondRun ==
    /\ firstRun # NoRun
    /\ lastCall'.path = firstRun.path
    /\ ToLower(lastCall'.format) = firstRun.format
    /\ lastCall'.outputPath = firstRun.outputPath
    /\ Undisturbed
    /\ lastCall'.before.fs[firstRun.path].st = "file"
    /\ lastCall'.before.fs[firstRun.path].mtime = firstRun.modTime

\* the call is a cache hit with the size the first run recorded
HitOfFirstRun ==
    /\ lastCall'.ret = "hit"
    /\ ~lastCall'.codec
    /\ lastCall'.result.Error = Nil
    /\ lastCall'.result.NewSize = firstRun.size

\* C4 as stated: after a successful conversion that kept the source, a
\* second Convert of the same file with unchanged source modification time
\* and the same settings is a cache hit: no codec, no error, and the size
\* of the first run (for calls during which no other program changes a
\* file).
C4_AsStated == [][(ConvertStep /\ SecondRun) => HitOfFirstRun]_vars

\* C4, amended: the same, provided the output file of the first run is
\* still on disk when the second call is made and no other program changes
\* a file while either call runs.
C4_SecondRunIsCacheHit ==
    [][(/\ ConvertStep
        /\ SecondRun
        /\ lastCall'.before.fs[NewPathOf(firstRun.path, firstRun.format,
                                         firstRun.outputPath)].st = "file")
          => HitOfFirstRun]_vars

\* a cache hit that reports the size the codec produced in the first run
C4_Witness ==
    /\ lastCall.ret = "hit"
    /\ ~lastCall.disturbed
    /\ firstRun # NoRun
    /\ firstRun.path = lastCall.path
    /\ lastCall.result.NewSize = firstRun.size
    /\ firstRun.size \in CodecSizes
    /\ lastCall.result.Error = Nil
    /\ ~lastCall.codec

\* the call has ended, undisturbed: it got to the cache lookup and found
\* an entry under its key
FindsEntry ==
    /\ Ended(lastCall')
    /\ lastCall'.ret \notin {"stat", "already"}
    /\ Undisturbed
    /\ getCacheKey(lastCall'.path, ToLower(lastCall'.format))
          \in DOMAIN lastCall'.before.cache

\* the three conditions, on the entry found and the state the call starts in
EntryTrustworthy ==
    LET entry == lastCall'.before.cache[
                     getCacheKey(lastCall'.path, ToLower(lastCall'.format))]
    IN /\ ~(lastCall'.before.fs[lastCall'.path].mtime > entry.lastModified)
       /\ lastCall'.before.fs[lastCall'.result.NewPath].st = "file"
       /\ entry.configHash =
             ConfigHashOf(options.Quality, options.MaxDimension)

\* C5 as stated: a call, during which no other program changes a file,
\* returns from the cache only if it finds an entry for
\* which the three conditions hold (source not modified after the recorded
\* time, output file there, same settings hash); a call that finds an entry
\* for which one of them fails evicts it and, unless it is a dry run,
\* invokes the codec.
C5_AsStated ==
    [][/\ (lastCall'.ret = "hit" /\ Undisturbed) =>
             (FindsEntry /\ EntryTrustworthy)
       /\ (FindsEntry /\ ~EntryTrustworthy) =>
             /\ lastCall'.evicted
             /\ ~options.DryRun => lastCall'.codec]_vars

\* C5, amended: the same, except that the codec is not invoked when the
\* backup that was asked for fails: the call then returns the backup error,
\* or does not return when the buffer pool makes it panic.
C5_CacheValidity ==
    [][/\ (lastCall'.ret = "hit" /\ Undisturbed) =>
             (FindsEntry /\ EntryTrustworthy)
       /\ (FindsEntry /\ ~EntryTrustworthy) =>
             /\ lastCall'.evicted
             /\ lastCall'.ret # "hit"
             /\ ~options.DryRun =>
                   \/ lastCall'.codec
                   \/ (/\ options.Backup
                       /\ lastCall'.ret = "backup"
                       /\ lastCall'.result.Error.msg = "backup failed")
                   \/ (options.Backup /\ lastCall'.pc = "panic")]_vars

\* a call that evicted the entry it found and ran the codec again
C5_Witness ==
    /\ lastCall.evicted
    /\ ~lastCall.disturbed
    /\ lastCall.codec
    /\ lastCall.ret = "ok"

\* C6: a call on an existing file whose extension denotes the target format
\* returns the error "file already in target format" and changes neither
\* the file system nor the cache, and does not invoke the codec.
C6_AlreadyInFormat ==
    [][(/\ ConvertStep
        /\ fs[lastCall'.path].st = "file"
        /\ DenotesFormat(lastCall'.path, lastCall'.format))
          => /\ lastCall'.result.Error # Nil
             /\ lastCall'.result.Error.msg = "file already in target format"
             /\ ~lastCall'.codec
             /\ fs' = fs
             /\ cache' = cache]_vars

\* b.JPG asked for in JPEG: the error is returned
C6_Witness ==
    /\ lastCall.path = BJpg
    /\ lastCall.format = JpegUpper
    /\ lastCall.ret = "already"
    /\ lastCall.result.Error.msg = "file already in target format"

\* C7: in dry-run mode a call on an existing file that is not in the target
\* format leaves the file system as it is (no output, no backup, source
\* kept), does not invoke the codec and returns no error, whatever Backup
\* and KeepOriginal are.
C7_DryRunNoWrites ==
    [][(CallerStep /\ options.DryRun)
          => /\ fs' = fs
             /\ (/\ ConvertStep
                 /\ lastCall'.stat.st = "file"
                 /\ ~DenotesFormat(lastCall'.path, lastCall'.format))
                   => /\ ~lastCall'.codec
                      /\ lastCall'.result.Error = Nil]_vars

\* a dry run with Backup set and KeepOriginal unset has returned at the
\* dry-run check, the source still there and no backup made
C7_Witness ==
    /\ options.DryRun
    /\ options.Backup
    /\ ~options.KeepOriginal
    /\ lastCall.ret = "dry"
    /\ lastCall.path = APng
    /\ fs[APng].st = "file"
    /\ fs[BackupPath(APng)].st = "absent"

\* C8 as stated: in dry-run mode a call never changes the cache.
C8_DryRunCacheUntouched ==
    [][(CallerStep /\ options.DryRun) => cache' = cache]_vars

\* C9: no entry of the cache passes for an entry of other settings: for any
\* quality and max-dimension other than the converter's, the key of a file
\* and format under those settings either finds no entry or finds one whose
\* settings hash differs from the hash of those settings, so that the entry
\* is not valid and the conversion is performed again.
C9_SettingsInvalidateCache ==
    \A q \in SettingValues, m \in SettingValues :
        <<q, m>> # <<options.Quality, options.MaxDimension>> =>
            LET hash == ConfigHashOf(q, m) IN
            /\ hash # getConfigHash
            /\ \A r \in Requests :
                  LET key == r.path \o ToLower(r.format) \o hash
                  IN key \in DOMAIN cache => cache[key].configHash # hash

\* an entry is in the cache, made under quality 1 and max-dimension 23
C9_Witness ==
    /\ options.Quality = 1
    /\ options.MaxDimension = 23
    /\ \E k \in DOMAIN cache : cache[k].configHash = <<"1", "_", "2", "3">>
    /\ lastCall.codec
    /\ lastCall.ret = "ok"

\* C10 as stated: a call whose stat of the source fails returns an error
\* that is the declared kind of the failure: ErrSourceNotFound when the file
\* does not exist, ErrPermissionDenied when access is refused.
C10_StatErrorTagged ==
    lastCall.ret = "stat" =>
        /\ lastCall.result.Error # Nil
        /\ lastCall.stat.st = "absent" =>
              ErrorsIs(lastCall.result.Error, ErrSourceNotFound)
        /\ lastCall.stat.st = "denied" =>
              ErrorsIs(lastCall.result.Error, ErrPermissionDenied)


-----------------------------------------------------------------------------
(* Properties of the statistics, under SpecStats.                          *)

\* the step is a call of AddResult, and the result it was called with
AddResultStep == Len(statLog') = Len(statLog) + 1
Added == statLog'[Len(statLog')]

\* C11 as stated: AddResult counts the result Convert returns for a file
\* already in the target format as skipped: SkippedFiles goes up by one and
\* neither FailedFiles nor ConvertedFiles changes.
C11_AlreadyInFormatSkipped ==
    [][(AddResultStep /\ Added \in AlreadyInFormatResults)
          => /\ stats'.SkippedFiles = stats.SkippedFiles + 1
             /\ stats'.FailedFiles = stats.FailedFiles
             /\ stats'.ConvertedFiles = stats.ConvertedFiles]_vars

\* the declared kind of an error: the first of corrupted, permission-denied
\* and unsupported-format found in its chain, otherwise other
DeclaredKind(err) ==
    IF ErrCorruptedImage \in err.is THEN "Corrupted"
    ELSE IF ErrPermissionDenied \in err.is THEN "Permission"
    ELSE IF ErrUnsupportedFormat \in err.is THEN "Unsupported"
    ELSE "Other"

\* C12: for a result that bears an error, AddResult adds one to FailedFiles
\* and to the one failure category of the error's declared kind, whether
\* the kind is the error itself or wrapped in it, and leaves the other
\* categories, ConvertedFiles, SkippedFiles and the byte totals as they are.
C12_FailureCategories ==
    [][(AddResultStep /\ Added.Error # Nil)
          => /\ stats'.FailedFiles = stats.FailedFiles + 1
             /\ \A k \in {"Corrupted", "Permission", "Unsupported", "Other"} :
                   stats'.Failures[k] =
                      stats.Failures[k]
                         + (IF k = DeclaredKind(Added.Error) THEN 1 ELSE 0)
             /\ stats'.ConvertedFiles = stats.ConvertedFiles
             /\ stats'.SkippedFiles = stats.SkippedFiles
             /\ stats'.TotalSizeBefore = stats.TotalSizeBefore
             /\ stats'.TotalSizeAfter = stats.TotalSizeAfter]_vars

\* two failed results were counted: a wrapped permission error as
\* permission-denied, and an error of two kinds as corrupted only
C12_Witness ==
    /\ Len(statLog) = 2
    /\ statLog[1].Error.msg = "failed to open source"
    /\ statLog[2].Error.is = {ErrCorruptedImage, ErrPermissionDenied}
    /\ stats.FailedFiles = 2
    /\ stats.Failures.Permission = 1
    /\ stats.Failures.Corrupted = 1
    /\ stats.ConvertedFiles = 0

\* the converted results among those added: without error, and with a path
\* or a new size
IsConverted(r) == r.Error = Nil /\ ~(r.OriginalPath = Empty /\ r.NewSize = 0)

RECURSIVE SumOriginalSize(_)
SumOriginalSize(log) ==
    IF log = <<>> THEN 0
    ELSE (IF IsConverted(Head(log)) THEN Head(log).OriginalSize ELSE 0)
            + SumOriginalSize(Tail(log))

RECURSIVE SumNewSize(_)
SumNewSize(log) ==
    IF log = <<>> THEN 0
    ELSE (IF IsConverted(Head(log)) THEN Head(log).NewSize ELSE 0)
            + SumNewSize(Tail(log))

\* C13 as stated: after AddResult calls followed by Calculate, the totals
\* are the sums of the sizes of the converted results and SpaceSaved is
\* TotalSizeBefore minus TotalSizeAfter, whatever the totals are; for the
\* one result of 1000 and 500 bytes SpaceSaved is 500 and ConvertedFiles 1.
C13_SpaceSaved ==
    statPhase = "calculated" =>
        /\ stats.TotalSizeBefore = SumOriginalSize(statLog)
        /\ stats.TotalSizeAfter = SumNewSize(statLog)
        /\ stats.SpaceSaved = stats.TotalSizeBefore - stats.TotalSizeAfter
        /\ statLog = <<TestResult>> =>
              (stats.SpaceSaved = 500 /\ stats.ConvertedFiles = 1)

-----------------------------------------------------------------------------
(* Properties of the converter, under Spec (continued).                    *)

\* C14: when the codec has written the output, the source is not to be kept
\* and its removal fails (the source is still there after the call), and no
\* other program has changed a file during the call, the
\* call returns the error of the removal, the output file is on disk, and
\* the result carries the path and the size of the output.
C14_DeleteFailureReported ==
    [][(/\ ConvertStep
        /\ Undisturbed
        /\ lastCall'.codec
        /\ lastCall'.ret # "codec"
        /\ ~options.KeepOriginal
        /\ fs'[lastCall'.path].st = "file")
          => /\ lastCall'.result.Error # Nil
             /\ lastCall'.result.Error.msg = "failed to remove original"
             /\ lastCall'.result.NewPath =
                   NewPathOf(lastCall'.path, ToLower(lastCall'.format),
                             lastCall'.outputPath)
             /\ fs'[lastCall'.result.NewPath].st = "file"
             /\ lastCall'.result.NewSize = fs'[lastCall'.result.NewPath].size
             /\ lastCall'.result.NewSize \in CodecSizes]_vars

\* the removal of a.png failed after its conversion: the error is returned,
\* source and output are both on disk
C14_Witness ==
    /\ lastCall.ret = "remove"
    /\ ~lastCall.disturbed
    /\ lastCall.path = APng
    /\ ~options.KeepOriginal
    /\ lastCall.result.Error.msg = "failed to remove original"
    /\ fs[APng].st = "file"
    /\ fs[lastCall.result.NewPath].st = "file"
    /\ lastCall.result.NewSize = fs[lastCall.result.NewPath].size

-----------------------------------------------------------------------------
(* Properties of the backup copy, under SpecBackup.                        *)

\* the file is there and is not a complete copy of the source
Partial(p) == fs[p].st = "file" /\ fs[p].size # fs[BackupSrc].size

\* the temporary file of the latest call is gone (or none was created)
TempRemoved == bak.tmp # Empty => fs[bak.tmp].st = "absent"

\* the file at the final name is never a partial copy, whatever step fails
\* and wherever the process dies
BackupAtomicOnReturn == ~Partial(BackupDst)

\* C15 as stated: at every point of the copy, a crash or a failure at any
\* step included, the file at the final backup name is absent or complete,
\* never partial; and when the copy has failed and the process lives on,
\* the temporary file is removed.
C15_AtomicBackup ==
    /\ ~Partial(BackupDst)
    /\ (bak.pc = "idle" /\ bak.last \in {"error", "panic"}) => TempRemoved

-----------------------------------------------------------------------------
(* Properties of the validator, under SpecValidator.                       *)

\* the path has an element that is ".."
HasTraversalElement(path) ==
    LET elements == SplitFrom(path, 1, <<>>)
    IN \E i \in DOMAIN elements : elements[i] = <<".", ".">>

\* C16 as stated: ValidateFilePath returns an error for every path that has
\* a ".." element, wherever it stands, and nil for every path that has
\* none.
C16_TraversalRejected ==
    (valCall.fn = "ValidateFilePath" /\ valCall.done) =>
        (valCall.err # Nil <=> HasTraversalElement(valCall.path))

\* C17: ValidateInputs returns nil exactly when the input directory is
\* named, is there, can be read and the target format is in the list; and
\* otherwise an error of the kind of the first failing check: not found for
\* a directory not named or missing, then permission denied for one that
\* cannot be read, then unsupported format.
C17_ValidateInputsOrder ==
    (valCall.fn = "ValidateInputs" /\ valCall.done) =>
        LET d == valCall.path
            missing == IF d = Empty THEN TRUE ELSE inputDirs[d] = "absent"
            unreadable == IF d = Empty THEN FALSE
                          ELSE inputDirs[d] \in {"unreadable", "noaccess"}
            unsupported ==
                valCall.format \notin Range(valCall.supported)
        IN /\ valCall.err = Nil <=> (~missing /\ ~unreadable /\ ~unsupported)
           /\ missing => valCall.err.is = {ErrSourceNotFound}
           /\ (~missing /\ unreadable) =>
                 valCall.err.is = {ErrPermissionDenied}
           /\ (~missing /\ ~unreadable /\ unsupported) =>
                 valCall.err.is = {ErrUnsupportedFormat}

\* a directory that cannot be read and a format that is not supported:
\* the error is permission denied
C17_Witness ==
    /\ valCall.fn = "ValidateInputs"
    /\ valCall.done
    /\ valCall.path = In
    /\ inputDirs[In] = "unreadable"
    /\ valCall.format = Gif
    /\ valCall.supported = <<Png, Jpg>>
    /\ valCall.err.is = {ErrPermissionDenied}

-----------------------------------------------------------------------------
(* Properties of the session store, under SpecSession.                     *)

\* C18: a run resumes from the stored state exactly when there is one and
\* its inputDir, targetFormat and totalFiles are those of the invocation;
\* a run that resumes takes the stored markers, and a run that does not
\* takes no file for processed.
C18_ResumeOnlyOnMatch ==
    session.runs > 0 =>
        /\ session.resumed <=>
              /\ session.found
              /\ session.stored.InputDir = session.params.inputDir
              /\ session.stored.TargetFormat = session.params.targetFormat
              /\ session.stored.TotalFiles = session.params.totalFiles
        /\ session.resumed => session.skipped = session.stored.ProcessedFiles
        /\ ~session.resumed => session.skipped = {}
        /\ session.phase = "running" =>
              /\ session.state.InputDir = session.params.inputDir
              /\ session.state.TargetFormat = session.params.targetFormat
              /\ session.state.TotalFiles = session.params.totalFiles

\* a stored state with a marker, of the same directory and format and of
\* another number of files, was found and not resumed from
C18_Witness ==
    /\ session.phase = "running"
    /\ session.found
    /\ ~session.resumed
    /\ session.stored.ProcessedFiles # {}
    /\ session.stored.InputDir = session.params.inputDir
    /\ session.stored.TargetFormat = session.params.targetFormat
    /\ session.stored.TotalFiles # session.params.totalFiles
    /\ session.skipped = {}

-----------------------------------------------------------------------------
(* Properties of the rate limiter, under SpecLimiter.                      *)

-----------------------------------------------------------------------------
(* Properties of the batch processor, under SpecBatch.                     *)

\* the name of the file with its extension replaced by the format
OutputName(file, format) ==
    TrimSuffix(Base(file), Ext(file)) \o <<".">> \o format

\* C21: the path GetOutputPath returns bears the name of the file with the
\* extension replaced by the target format, and lies: with an output
\* directory and preserve-structure, in the output directory joined with the
\* directory of the file relative to the root; with an output directory and
\* no preserve-structure, in the output directory itself; with no output
\* directory, in the directory of the source.
C21_GetOutputPath ==
    (batch.fn = "GetOutputPath" /\ batch.done) =>
        /\ Base(batch.path) = OutputName(batch.file, batch.format)
        /\ Ext(batch.path) = <<".">> \o batch.format
        /\ Dir(batch.path) =
              IF batch.cfg.OutputDir = Empty THEN Dir(batch.file)
              ELSE IF batch.cfg.PreserveStructure
              THEN Join(batch.cfg.OutputDir, Dir(Rel(batch.root, batch.file)))
              ELSE Clean(batch.cfg.OutputDir)

\* a file of a subdirectory has got its path under an output directory,
\* with the structure preserved
C21_Witness ==
    /\ batch.fn = "GetOutputPath" /\ batch.done
    /\ batch.cfg.OutputDir = OutSub /\ batch.cfg.PreserveStructure
    /\ batch.file = JoinElements(<<Root, SubS, SubT, APng>>)
    /\ batch.path = JoinElements(<<OutSub, SubS, SubT, <<"a",".","w","e","b","p">> >>)

\* the files of the tree that lie under the root, at any depth
Under(tree, root) == {f \in tree.files : root \in Ancestors(f)}

\* the directories between the root and a file under it
DepthBelow(root, file) ==
    Cardinality({d \in Ancestors(file) : root \in Ancestors(d)})

\* the file lies within the depth the search of the configuration goes to
WithinDepth(cfg, root, file) ==
    IF ~cfg.RecursiveSearch THEN DepthBelow(root, file) = 0
    ELSE cfg.MaxDepth = 0 \/ DepthBelow(root, file) <= cfg.MaxDepth

\* the file a path stands for, its links resolved
RECURSIVE Resolve(_, _)
Resolve(tree, path) ==
    LET through == {l \in tree.links :
                       /\ Len(path) > Len(l.path)
                       /\ SubSeq(path, 1, Len(l.path) + 1) = l.path \o <<"/">>}
    IN IF through = {} THEN path
       ELSE LET l == CHOOSE x \in through : TRUE
            IN Resolve(tree, l.target
                             \o SubSeq(path, Len(l.path) + 1, Len(path)))

\* the paths of the sequence ascend strictly, byte by byte
Ascending(q) == \A i, k \in DOMAIN q : i < k => Less(q[i], q[k])

\* a link of the tree is followed by a search of the configuration
FollowsLinks(tree, cfg) == cfg.FollowSymlinks /\ tree.links # {}

-----------------------------------------------------------------------------
(* Properties of the converter over sequences of calls, under Spec.        *)

\* the call that has just returned reported success and did not run the
\* codec
SuccessWithoutCodec(call) == call.result.Error = Nil /\ ~call.codec

\* C23 as stated, in its particular case: in non-dry-run mode, the call that
\* follows a call whose backup step or codec step failed while an output
\* file was already there, for the same source and format, does not return
\* a success result without invoking the codec.
C23_ExistingOutputNeverSkips ==
    [][(/\ ConvertStep
        /\ ~options.DryRun
        /\ lastCall'.afterFailure)
          => ~SuccessWithoutCodec(lastCall')]_vars

\* the step of the call changes the source
SourceChanged ==
    /\ CallerStep
    /\ lastCall'.path \in DOMAIN fs
    /\ fs'[lastCall'.path] # fs[lastCall'.path]

\* C25: a step of a call changes the source only by removing it, and only
\* when the source is not to be kept, the run is not a dry run, the codec
\* has run in the call and returned no error and, when a backup is asked
\* for, the backup is there; unless another program changed a file during
\* the call, the output file is there and the backup holds the whole
\* source. A call that returns from the stat, the format check, a cache
\* hit, a failed backup or a failed codec has thus left the source as it
\* was.
C25_SourceRemovedLast ==
    [][SourceChanged =>
          /\ fs[lastCall'.path].st = "file"
          /\ fs'[lastCall'.path] = NoFile
          /\ ~options.KeepOriginal /\ ~options.DryRun
          /\ lastCall'.codec /\ lastCall'.ret = "ok"
          /\ options.Backup => fs'[BackupPath(lastCall'.path)].st = "file"
          /\ Undisturbed =>
                /\ fs'[lastCall'.result.NewPath].st = "file"
                /\ options.Backup =>
                      fs'[BackupPath(lastCall'.path)] =
                          Written(fs[lastCall'.path].size)]_vars

\* a call with Backup set has backed up, converted and removed its source
C25_Witness ==
    /\ lastCall.ret = "ok" /\ lastCall.codec
    /\ ~lastCall.disturbed
    /\ options.Backup /\ ~options.KeepOriginal /\ ~options.DryRun
    /\ lastCall.path = APng
    /\ fs[APng].st = "absent"
    /\ fs[BackupPath(APng)] = Written(SourceSize)
    /\ fs[lastCall.result.NewPath].st = "file"

-----------------------------------------------------------------------------
(* Properties of the statistics, under SpecStats (continued).              *)

\* C26: at any moment TotalFiles is the number of AddResult calls made and
\* equals ConvertedFiles + SkippedFiles + FailedFiles, and FailedFiles is
\* the sum of the four failure categories.
C26_OutcomePartition ==
    /\ stats.TotalFiles = Len(statLog)
    /\ stats.TotalFiles =
          stats.ConvertedFiles + stats.SkippedFiles + stats.FailedFiles
    /\ stats.FailedFiles =
          stats.Failures.Corrupted + stats.Failures.Permission
             + stats.Failures.Unsupported + stats.Failures.Other

\* MaxResults results have been counted: one as skipped, the others as
\* failed or converted
C26_Witness ==
    /\ Len(statLog) = MaxResults
    /\ stats.SkippedFiles = 1
    /\ stats.FailedFiles + stats.ConvertedFiles = MaxResults - 1

-----------------------------------------------------------------------------
(* Properties of the converter called with explicit output paths, under    *)
(* SpecOutputPath.                                                         *)

\* the entry the call that returns has found in the cache
EntryOfCall == lastCall'.cached

\* C24 as stated: a call returns from the cache only if the output file
\* recorded in the entry is there, and its result bears the recorded path
\* as NewPath and the recorded size as NewSize; an entry recorded for one
\* output path is not used for a call that asks for another.
C24_HitIsOfRecordedOutput ==
    [][(ConvertStep /\ lastCall'.ret = "hit")
          => /\ fs[EntryOfCall.outputPath].st = "file"
             /\ lastCall'.result.NewPath = EntryOfCall.outputPath
             /\ lastCall'.result.NewSize = EntryOfCall.outputSize]_vars

-----------------------------------------------------------------------------
(* Properties of the downscaling, under SpecResize.                        *)

LongerSide(width, height) == IF width > height THEN width ELSE height

\* C29: img.Resize is called exactly when MaxDimension is above 0 and the
\* longer side of the image is above MaxDimension; the scale it is given is
\* then MaxDimension / longer side, one scale for both sides and below 1;
\* the image is resized exactly when the call returns no error, and
\* convertImage returns an error when it does; an image whose longer side
\* is at most MaxDimension is not handed to img.Resize at any scale.
C29_Downscale ==
    resize.done =>
        LET longer == LongerSide(resize.width, resize.height) IN
        /\ resize.called <=>
              (resize.maxDimension > 0 /\ longer > resize.maxDimension)
        /\ resize.called =>
              /\ resize.scale.num * longer
                    = resize.maxDimension * resize.scale.den
              /\ resize.scale.num < resize.scale.den
        /\ resize.resized <=> (resize.called /\ resize.err = Nil)
        /\ ~resize.called => resize.err = Nil

\* an image higher than wide, above the maximum in its height only, has
\* been scaled down by its height
C29_Witness ==
    /\ resize.done /\ resize.resized
    /\ resize.width = 2 /\ resize.height = 4 /\ resize.maxDimension = 3
    /\ resize.scale = Quotient(3, 4)

-----------------------------------------------------------------------------
(* Properties of the concurrent calls, under SpecCalls.                    *)

\* the entry of the cache at a key, Nil if there is none
EntryAt(c, key) == IF key \in DOMAIN c THEN c[key] ELSE Nil

\* every call has ended
AllEnded == \A j \in CallJobs : Ended(calls.c[j])

\* the orders the jobs can be run in one after the other
SerialOrders ==
    {o \in [1..Cardinality(CallJobs) -> CallJobs] :
        \A i, k \in DOMAIN o : i # k => o[i] # o[k]}

\* the calls have left what the jobs, run one after the other in some
\* order from the same beginning and with the same outcomes of the codec,
\* the backup, the buffer pool and the removal, leave: the result of each
\* job, whether the codec ran, the files and the cache
SameAsSerial ==
    \E o \in SerialOrders :
        LET s == RunSerial(calls.start, o, <<>>) IN
        /\ s.sh.fs = fs
        /\ s.sh.cache = cache
        /\ \A j \in CallJobs :
              /\ s.c[j].pc = calls.c[j].pc
              /\ s.c[j].result = calls.c[j].result
              /\ s.c[j].codec = calls.c[j].codec

\* C27: in every interleaving of the calls of jobs with distinct sources and
\* outputs, a step of one call leaves the cache entries of the other jobs
\* as they are, and when all calls have ended each job has the result, and
\* the cache and the files are, as after the jobs run one after the other.
C27_ConcurrentAsSerial ==
    /\ [][\A j \in CallJobs :
             calls'.c[j] # calls.c[j] =>
                \A k \in CallJobs \ {j} :
                    EntryAt(cache', CallKey(k)) = EntryAt(cache, CallKey(k))]_vars
    /\ [](AllEnded => SameAsSerial)

\* both calls ran the codec and stored their entries, the one after it had
\* evicted an entry and the other over a file at its output path, and the
\* second began before the first had ended: its stat of the source came
\* before the removal of the other source
C27_Witness ==
    /\ AllEnded
    /\ \A j \in CallJobs :
          /\ calls.c[j].pc = "done" /\ calls.c[j].codec
          /\ calls.c[j].result.Error = Nil
          /\ CallKey(j) \in DOMAIN cache
          /\ fs[BackupPath(CallRequests[j].path)].st = "file"
          /\ fs[CallRequests[j].path].st = "absent"
    /\ calls.start.pool = 0
    /\ CallKey(1) \in DOMAIN calls.start.cache
    /\ CallKey(2) \notin DOMAIN calls.start.cache
    /\ calls.start.fs[CallOutput(2)].st = "file"

-----------------------------------------------------------------------------
(* Liveness of the worker pool, under SpecPoolFair.                        *)

\* C28: with a consumer that keeps receiving and conversions that end,
\* every call of AddJob returns and the call of Stop returns, whatever the
\* number of jobs against the capacity of the queue and the number of
\* workers.
C28_NoDeadlock ==
    /\ (driver = "addjob") ~> (driver = "ready")
    /\ (driver = "stopping") ~> (driver = "stopped")

\* more jobs than the queue holds and than there are workers were all
\* submitted, Stop has returned and every result has been published
C28_Witness ==
    /\ NumJobs > QueueCap /\ NumJobs > NumWorkers
    /\ driver = "stopped"
    /\ todo = <<>>
    /\ Len(results) + BagCardinality(consumed) = NumJobs

=============================================================================
